---- MODULE Spec2Model ----
(***************************************************************************)
(* Dialogue orchestration pipeline of VoiceHunte: the turn-bounded         *)
(* conversation driver (app/agent/graph.py), the intent classifier with    *)
(* its rule-based fallback (app/agent/nodes/intent.py), the tool           *)
(* dispatcher (app/agent/nodes/tools_crm.py, tools_menu.py) and the reply  *)
(* composer (app/agent/nodes/respond.py).                                  *)
(*                                                                         *)
(* Text is a sequence of characters.  An ASCII character is the one-       *)
(* character string itself; any other character is the string "U+XXXX"     *)
(* of its code point.  Optional values (Python's X | None) are sequences   *)
(* of length at most one: <<>> is None and <<v>> is the value v.           *)
(***************************************************************************)
EXTENDS Integers, Sequences, FiniteSets, TLC

(***************************************************************************)
(* Bounds of the model.                                                    *)
(***************************************************************************)
\* words in a text handed to a pure function
MaxWords == 2

\* user entries in a history
MaxUtterances == 3

\* calls of run_agent on one CallState fed through last_user_text
MaxCalls == 3

\* calls of run_agent on one CallState whose history the caller writes
MaxRuns == 1

\* the largest explicit max_turns
MaxBudget == 3

(***************************************************************************)
(* Characters and text.                                                    *)
(***************************************************************************)
Chars(s) == [i \in 1..Len(s) |-> SubSeq(s, i, i)]

None == <<>>

Some(v) == <<v>>

AsciiUpper == Chars("ABCDEFGHIJKLMNOPQRSTUVWXYZ")

AsciiLower == Chars("abcdefghijklmnopqrstuvwxyz")

Digits == Chars("0123456789")

\* upper-case / lower-case pairs of А-Я and Ё
CyrillicCase ==
    { <<"U+0410", "U+0430">>, <<"U+0411", "U+0431">>, <<"U+0412", "U+0432">>,
      <<"U+0413", "U+0433">>, <<"U+0414", "U+0434">>, <<"U+0415", "U+0435">>,
      <<"U+0416", "U+0436">>, <<"U+0417", "U+0437">>, <<"U+0418", "U+0438">>,
      <<"U+0419", "U+0439">>, <<"U+041A", "U+043A">>, <<"U+041B", "U+043B">>,
      <<"U+041C", "U+043C">>, <<"U+041D", "U+043D">>, <<"U+041E", "U+043E">>,
      <<"U+041F", "U+043F">>, <<"U+0420", "U+0440">>, <<"U+0421", "U+0441">>,
      <<"U+0422", "U+0442">>, <<"U+0423", "U+0443">>, <<"U+0424", "U+0444">>,
      <<"U+0425", "U+0445">>, <<"U+0426", "U+0446">>, <<"U+0427", "U+0447">>,
      <<"U+0428", "U+0448">>, <<"U+0429", "U+0449">>, <<"U+042A", "U+044A">>,
      <<"U+042B", "U+044B">>, <<"U+042C", "U+044C">>, <<"U+042D", "U+044D">>,
      <<"U+042E", "U+044E">>, <<"U+042F", "U+044F">>, <<"U+0401", "U+0451">> }

\* upper-case / lower-case pairs of the Ukrainian letters І Ї Є Ґ
UkrainianCase ==
    { <<"U+0406", "U+0456">>, <<"U+0407", "U+0457">>, <<"U+0404", "U+0454">>,
      <<"U+0490", "U+0491">> }

\* upper-case / lower-case pairs of ÁÄČĎÉÍĽĹŇÓÔŔŠŤÚÝŽ
SlovakCase ==
    { <<"U+00C1", "U+00E1">>, <<"U+00C4", "U+00E4">>, <<"U+010C", "U+010D">>,
      <<"U+010E", "U+010F">>, <<"U+00C9", "U+00E9">>, <<"U+00CD", "U+00ED">>,
      <<"U+013D", "U+013E">>, <<"U+0139", "U+013A">>, <<"U+0147", "U+0148">>,
      <<"U+00D3", "U+00F3">>, <<"U+00D4", "U+00F4">>, <<"U+0154", "U+0155">>,
      <<"U+0160", "U+0161">>, <<"U+0164", "U+0165">>, <<"U+00DA", "U+00FA">>,
      <<"U+00DD", "U+00FD">>, <<"U+017D", "U+017E">> }

NonAsciiCase == CyrillicCase \cup UkrainianCase \cup SlovakCase

\* str.lower() on one character
LowerChar(c) ==
    IF \E i \in 1..26 : AsciiUpper[i] = c
    THEN AsciiLower[CHOOSE i \in 1..26 : AsciiUpper[i] = c]
    ELSE IF \E p \in NonAsciiCase : p[1] = c
         THEN (CHOOSE p \in NonAsciiCase : p[1] = c)[2]
         ELSE c

\* str.lower()
lower(text) == [i \in 1..Len(text) |-> LowerChar(text[i])]

\* the pattern kw matches text at position i
MatchAt(text, i, kw) ==
    /\ i + Len(kw) - 1 <= Len(text)
    /\ SubSeq(text, i, i + Len(kw) - 1) = kw

\* re.search of an alternation of literal words
SearchAny(text, words) ==
    \E i \in 1..Len(text) : \E kw \in words : MatchAt(text, i, kw)

(***************************************************************************)
(* Intents (app/agent/models.py) and the keyword buckets of the            *)
(* deterministic intent fallback (app/agent/nodes/intent.py).              *)
(***************************************************************************)
Intent ==
    { "create_reservation", "update_reservation", "cancel_reservation",
      "menu_question", "hours_info", "generic" }

\* cancel|отмен|скас|zruš
CancelWords ==
    { Chars("cancel"),
      <<"U+043E", "U+0442", "U+043C", "U+0435", "U+043D">>,
      <<"U+0441", "U+043A", "U+0430", "U+0441">>,
      <<"z", "r", "u", "U+0161">> }

\* change|update|move|измен|перен|змін|zmeni|upravi
UpdateWords ==
    { Chars("change"),
      Chars("update"),
      Chars("move"),
      <<"U+0438", "U+0437", "U+043C", "U+0435", "U+043D">>,
      <<"U+043F", "U+0435", "U+0440", "U+0435", "U+043D">>,
      <<"U+0437", "U+043C", "U+0456", "U+043D">>,
      Chars("zmeni"),
      Chars("upravi") }

\* book|reserve|reservation|заброн|брон|rezerv|rezer
CreateWords ==
    { Chars("book"),
      Chars("reserve"),
      Chars("reservation"),
      <<"U+0437", "U+0430", "U+0431", "U+0440", "U+043E", "U+043D">>,
      <<"U+0431", "U+0440", "U+043E", "U+043D">>,
      Chars("rezerv"),
      Chars("rezer") }

\* menu|меню|страв|jedlo|jedálny|ponuka
MenuWords ==
    { Chars("menu"),
      <<"U+043C", "U+0435", "U+043D", "U+044E">>,
      <<"U+0441", "U+0442", "U+0440", "U+0430", "U+0432">>,
      Chars("jedlo"),
      <<"j", "e", "d", "U+00E1", "l", "n", "y">>,
      Chars("ponuka") }

\* hours|open|close|работ|відкрит|otvár|hodin|час
HoursWords ==
    { Chars("hours"),
      Chars("open"),
      Chars("close"),
      <<"U+0440", "U+0430", "U+0431", "U+043E", "U+0442">>,
      <<"U+0432", "U+0456", "U+0434", "U+043A", "U+0440", "U+0438", "U+0442">>,
      <<"o", "t", "v", "U+00E1", "r">>,
      Chars("hodin"),
      <<"U+0447", "U+0430", "U+0441">> }

\* a slip that tests the booking words before the cancellation words
FallbackIntentCreateFirst(text) ==
    LET lowered == lower(text)
    IN  IF SearchAny(lowered, CreateWords) THEN "create_reservation"
        ELSE IF SearchAny(lowered, CancelWords) THEN "cancel_reservation"
        ELSE IF SearchAny(lowered, UpdateWords) THEN "update_reservation"
        ELSE IF SearchAny(lowered, MenuWords) THEN "menu_question"
        ELSE IF SearchAny(lowered, HoursWords) THEN "hours_info"
        ELSE "generic"

_fallback_intent(text) ==
    LET lowered == lower(text)
    IN  IF SearchAny(lowered, CancelWords) THEN "cancel_reservation"
        ELSE IF SearchAny(lowered, UpdateWords) THEN "update_reservation"
        ELSE IF SearchAny(lowered, CreateWords) THEN "create_reservation"
        ELSE IF SearchAny(lowered, MenuWords) THEN "menu_question"
        ELSE IF SearchAny(lowered, HoursWords) THEN "hours_info"
        ELSE "generic"

(***************************************************************************)
(* Character classes and the building blocks of the regular expressions    *)
(* of app/agent/nodes/intent.py.                                           *)
(***************************************************************************)
Range(f) == { f[i] : i \in DOMAIN f }

Min(S) == CHOOSE i \in S : \A j \in S : i <= j

\* \d
IsDigit(c) == c \in Range(Digits)

\* \s
IsSpace(c) == c = " "

IsAsciiLetter(c) == c \in Range(AsciiUpper) \cup Range(AsciiLower)

\* every character outside ASCII that the model writes is a letter
IsNonAscii(c) == Len(c) > 1

\* \w
IsWordChar(c) == IsAsciiLetter(c) \/ IsDigit(c) \/ c = "_" \/ IsNonAscii(c)

\* [а-яА-ЯёЁ]
IsCyrillic(c) == \E p \in CyrillicCase : c = p[1] \/ c = p[2]

\* [іїєґ]
IsUkrainianLower(c) == \E p \in UkrainianCase : c = p[2]

\* [áäčďéíľĺňóôŕšťúýž] with re.IGNORECASE
IsSlovak(c) == \E p \in SlovakCase : c = p[1] \/ c = p[2]

\* [A-Za-zÁÄČĎÉÍĽĹŇÓÔŔŠŤÚÝŽ\- ] with re.IGNORECASE
IsLatinNameChar(c) == IsAsciiLetter(c) \/ IsSlovak(c) \/ c = "-" \/ c = " "

\* [А-Яа-яёЁ\- ] with re.IGNORECASE
IsCyrillicNameChar(c) == IsCyrillic(c) \/ c = "-" \/ c = " "

\* \b between positions i - 1 and i of text
WordBoundary(text, i) ==
    LET before == i > 1 /\ IsWordChar(text[i - 1])
        after == i <= Len(text) /\ IsWordChar(text[i])
    IN  before # after

\* length of the greedy match of \s* at position j
SpaceRun(text, j) ==
    CHOOSE n \in 0..Len(text) :
        /\ j + n - 1 <= Len(text)
        /\ \A k \in j..(j + n - 1) : IsSpace(text[k])
        /\ j + n > Len(text) \/ ~IsSpace(text[j + n])

\* length of the greedy match of \d{0,max} at position j
DigitRun(text, j, max) ==
    CHOOSE n \in 0..max :
        /\ j + n - 1 <= Len(text)
        /\ \A k \in j..(j + n - 1) : IsDigit(text[k])
        /\ n = max \/ j + n > Len(text) \/ ~IsDigit(text[j + n])

DigitValue(c) == (CHOOSE i \in 1..10 : Digits[i] = c) - 1

\* int() of a string of decimal digits
RECURSIVE int(_)
int(digits) ==
    IF digits = <<>> THEN 0
    ELSE 10 * int(SubSeq(digits, 1, Len(digits) - 1))
         + DigitValue(digits[Len(digits)])

\* str.strip()
RECURSIVE strip(_)
strip(text) ==
    IF text = <<>> THEN text
    ELSE IF IsSpace(text[1]) THEN strip(Tail(text))
    ELSE IF IsSpace(text[Len(text)]) THEN strip(SubSeq(text, 1, Len(text) - 1))
    ELSE text

(***************************************************************************)
(* detect_language (intent.py:37-44)                                       *)
(***************************************************************************)
detect_language(text) ==
    IF \E i \in 1..Len(text) : IsCyrillic(text[i])
    THEN IF \E i \in 1..Len(text) : IsUkrainianLower(text[i])
         THEN "uk" ELSE "ru"
    ELSE IF \E i \in 1..Len(text) : IsSlovak(text[i])
         THEN "sk" ELSE "en"

(***************************************************************************)
(* _extract_reservation_id (intent.py:96-100):                             *)
(*   (?:id|#|брон|rezerv)\s*(\d{1,6}), re.IGNORECASE                       *)
(***************************************************************************)
ReservationIdWords ==
    { Chars("id"), Chars("#"),
      <<"U+0431", "U+0440", "U+043E", "U+043D">>,
      Chars("rezerv") }

_extract_reservation_id(text) ==
    LET low == lower(text)
        DigitsAt(i, w) == i + Len(w) + SpaceRun(text, i + Len(w))
        Matches(i, w) ==
            /\ MatchAt(low, i, w)
            /\ DigitRun(text, DigitsAt(i, w), 6) >= 1
        starts == { i \in 1..Len(text) :
                      \E w \in ReservationIdWords : Matches(i, w) }
    IN  IF starts = {} THEN None
        ELSE LET i == Min(starts)
                 w == CHOOSE w \in ReservationIdWords : Matches(i, w)
                 j == DigitsAt(i, w)
             IN  Some(int(SubSeq(text, j, j + DigitRun(text, j, 6) - 1)))

(***************************************************************************)
(* _extract_people (intent.py:66-77):                                      *)
(*   (\d+)\s*(people|persons|guests|ppl|чел|человек|людей|os[ôo]b|osoby)   *)
(*   with re.IGNORECASE, then \b(\d{1,2})\b                                *)
(***************************************************************************)
PeopleWords ==
    { Chars("people"), Chars("persons"), Chars("guests"), Chars("ppl"),
      <<"U+0447", "U+0435", "U+043B">>,
      <<"U+0447", "U+0435", "U+043B", "U+043E", "U+0432", "U+0435", "U+043A">>,
      <<"U+043B", "U+044E", "U+0434", "U+0435", "U+0439">>,
      <<"o", "s", "U+00F4", "b">>, Chars("osob"), Chars("osoby") }

_extract_people(text) ==
    LET low == lower(text)
        Run(i) == DigitRun(text, i, Len(text))
        WordAt(i) == i + Run(i) + SpaceRun(text, i + Run(i))
        counted == { i \in 1..Len(text) :
                       /\ Run(i) >= 1
                       /\ \E w \in PeopleWords : MatchAt(low, WordAt(i), w) }
        Standalone(i, n) ==
            /\ DigitRun(text, i, n) = n
            /\ WordBoundary(text, i)
            /\ WordBoundary(text, i + n)
        alone == { i \in 1..Len(text) : Standalone(i, 2) \/ Standalone(i, 1) }
    IN  IF counted # {}
        THEN LET i == Min(counted)
             IN  Some(int(SubSeq(text, i, i + Run(i) - 1)))
        ELSE IF alone # {}
        THEN LET i == Min(alone)
                 n == IF Standalone(i, 2) THEN 2 ELSE 1
             IN  Some(int(SubSeq(text, i, i + n - 1)))
        ELSE None

(***************************************************************************)
(* _extract_name (intent.py:80-93): the patterns are tried in order, each  *)
(* with re.IGNORECASE; the captured group is a greedy run of name          *)
(* characters, stripped.                                                   *)
(***************************************************************************)
NamePatterns ==
    << \* my name is ([A-Za-zÁÄČĎÉÍĽĹŇÓÔŔŠŤÚÝŽ\- ]+)
       [prefix |-> { Chars("my name is ") }, cyrillic |-> FALSE],
       \* i am ([A-Za-zÁÄČĎÉÍĽĹŇÓÔŔŠŤÚÝŽ\- ]+)
       [prefix |-> { Chars("i am ") }, cyrillic |-> FALSE],
       \* меня зовут ([А-Яа-яёЁ\- ]+)
       [prefix |-> { <<"U+043C", "U+0435", "U+043D", "U+044F", " ",
                       "U+0437", "U+043E", "U+0432", "U+0443", "U+0442",
                       " ">> },
        cyrillic |-> TRUE],
       \* я ([А-Яа-яёЁ\- ]+)
       [prefix |-> { <<"U+044F", " ">> }, cyrillic |-> TRUE],
       \* мене звати ([А-Яа-яёЁ\- ]+)
       [prefix |-> { <<"U+043C", "U+0435", "U+043D", "U+0435", " ",
                       "U+0437", "U+0432", "U+0430", "U+0442", "U+0438",
                       " ">> },
        cyrillic |-> TRUE],
       \* vol[aá]m sa ([A-Za-zÁÄČĎÉÍĽĹŇÓÔŔŠŤÚÝŽ\- ]+)
       [prefix |-> { Chars("volam sa "),
                     <<"v", "o", "l", "U+00E1", "m", " ", "s", "a", " ">> },
        cyrillic |-> FALSE] >>

_extract_name(text) ==
    LET low == lower(text)
        InClass(k, c) ==
            IF NamePatterns[k].cyrillic
            THEN IsCyrillicNameChar(c) ELSE IsLatinNameChar(c)
        Hit(k, i, p) ==
            /\ MatchAt(low, i, p)
            /\ i + Len(p) <= Len(text)
            /\ InClass(k, text[i + Len(p)])
        Starts(k) == { i \in 1..Len(text) :
                         \E p \in NamePatterns[k].prefix : Hit(k, i, p) }
        found == { k \in DOMAIN NamePatterns : Starts(k) # {} }
    IN  IF found = {} THEN None
        ELSE LET k == Min(found)
                 i == Min(Starts(k))
                 p == CHOOSE p \in NamePatterns[k].prefix : Hit(k, i, p)
                 j == i + Len(p)
                 n == CHOOSE n \in 1..Len(text) :
                        /\ j + n - 1 <= Len(text)
                        /\ \A m \in j..(j + n - 1) : InClass(k, text[m])
                        /\ j + n > Len(text) \/ ~InClass(k, text[j + n])
             IN  Some(strip(SubSeq(text, j, j + n - 1)))

(***************************************************************************)
(* _parse_datetime (intent.py:47-63).  A datetime is <<year, month, day,   *)
(* hour, minute>>.  In a shape "d" is \d, "S" is [ T], "/" is [./] and     *)
(* any other character is itself.                                          *)
(***************************************************************************)
ShapeAt(text, i, shape) ==
    /\ i + Len(shape) - 1 <= Len(text)
    /\ \A k \in 1..Len(shape) :
          LET s == shape[k]
              c == text[i + k - 1]
          IN  CASE s = "d" -> IsDigit(c)
                [] s = "S" -> c \in {" ", "T"}
                [] s = "/" -> c \in {".", "/"}
                [] OTHER -> c = s

IsLeapYear(y) == y % 4 = 0 /\ (y % 100 # 0 \/ y % 400 = 0)

DaysInMonth(y, m) ==
    IF m = 2 THEN (IF IsLeapYear(y) THEN 29 ELSE 28)
    ELSE IF m \in {4, 6, 9, 11} THEN 30 ELSE 31

\* datetime(...) and datetime.fromisoformat accept the fields
ValidDatetime(y, m, d, hh, mm) ==
    /\ y \in 1..9999
    /\ m \in 1..12
    /\ d \in 1..DaysInMonth(y, m)
    /\ hh \in 0..23
    /\ mm \in 0..59

_parse_datetime(text) ==
    LET Num(i, n) == int(SubSeq(text, i, i + n - 1))
        iso == { i \in 1..Len(text) :
                   ShapeAt(text, i, Chars("dddd-dd-ddSdd:dd")) }
        dates == { i \in 1..Len(text) : ShapeAt(text, i, Chars("dd/dd/dddd")) }
        Time2(i) == ShapeAt(text, i, Chars("dd:dd"))
        Time1(i) == ShapeAt(text, i, Chars("d:dd"))
        times == { i \in 1..Len(text) : Time2(i) \/ Time1(i) }
    IN  IF iso # {}
        THEN LET i == Min(iso)
                 y == Num(i, 4)
                 m == Num(i + 5, 2)
                 d == Num(i + 8, 2)
                 hh == Num(i + 11, 2)
                 mm == Num(i + 14, 2)
             IN  IF ValidDatetime(y, m, d, hh, mm)
                 THEN Some(<<y, m, d, hh, mm>>) ELSE None
        ELSE IF dates # {} /\ times # {}
        THEN LET i == Min(dates)
                 t == Min(times)
                 h == IF Time2(t) THEN 2 ELSE 1
                 d == Num(i, 2)
                 m == Num(i + 3, 2)
                 y == Num(i + 6, 4)
                 hh == Num(t, h)
                 mm == Num(t + h + 1, 2)
             IN  IF ValidDatetime(y, m, d, hh, mm)
                 THEN Some(<<y, m, d, hh, mm>>) ELSE None
        ELSE None

(***************************************************************************)
(* ReservationRequest and IntentExtraction (app/agent/models.py,           *)
(* intent.py:17-20).  The result of a call that may raise is a record      *)
(* whose field raised names the exception, "" when the call returned.      *)
(***************************************************************************)
EmptyRequest ==
    [name |-> None, datetime |-> None, people |-> None,
     reservation_id |-> None]

\* people: int | None = Field(default=None, ge=1)
ValidReservationRequest(e) == e.people = None \/ e.people[1] >= 1

\* truth value of an optional str, of an optional int, of an optional object
TruthyStr(o) == o # None /\ Len(o[1]) > 0

TruthyInt(o) == o # None /\ o[1] # 0

TruthyObj(o) == o # None

Raised(exception) ==
    [raised |-> exception, intent |-> "", entities |-> None, language |-> ""]

IntentExtraction(intent, entities, language) ==
    [raised |-> "", intent |-> intent, entities |-> entities,
     language |-> language]

_regex_fallback_extract(text, language) ==
    LET detected_language ==
            IF TruthyStr(language) THEN language[1] ELSE detect_language(text)
        entities ==
            [name |-> _extract_name(text),
             datetime |-> _parse_datetime(text),
             people |-> _extract_people(text),
             reservation_id |-> _extract_reservation_id(text)]
    IN  IF ~ValidReservationRequest(entities)
        THEN Raised("ValidationError")
        ELSE IntentExtraction(
                 _fallback_intent(text),
                 IF \/ TruthyStr(entities.name)
                    \/ TruthyObj(entities.datetime)
                    \/ TruthyInt(entities.people)
                    \/ TruthyInt(entities.reservation_id)
                 THEN Some(entities) ELSE None,
                 detected_language)

(***************************************************************************)
(* The utterances a caller submits to the driver, and the language codes   *)
(* a CallState carries.                                                    *)
(***************************************************************************)
BookTable == Chars("book a table")

CancelBooking == Chars("cancel my booking")

CancelOne == Chars("cancel #1")

BookFull == Chars("book 2 on 2025-05-10 18:30 i am Al")

Menu == Chars("menu")

UpdateZero == Chars("update #000 i am Al")

TableForZero == Chars("table for 0")

\* отмена
Otmena == <<"U+043E", "U+0442", "U+043C", "U+0435", "U+043D", "U+0430">>

InvalidDate == Chars("book 2025-13-10 18:30")

Hello == Chars("hello")

BookForTwo == Chars("book for 2")

Hours == Chars("hours")

ChangeBooking == Chars("change my booking")

\* меню
Menyu == <<"U+043C", "U+0435", "U+043D", "U+044E">>

Utterances ==
    { BookTable, CancelBooking, CancelOne, BookFull, Menu, UpdateZero,
      TableForZero, Otmena, InvalidDate, Hello, BookForTwo, Hours,
      ChangeBooking, Menyu }

Languages == { "en", "ru", "uk", "sk", "de" }

LanguageHints == { None } \cup { Some(l) : l \in Languages }

\* _regex_fallback_extract on the utterances of the model, computed once
FallbackMemo ==
    [text \in Utterances |->
        [language \in LanguageHints |->
            _regex_fallback_extract(text, language)]]

RegexFallback(text, language) ==
    IF text \in Utterances /\ language \in LanguageHints
    THEN FallbackMemo[text][language]
    ELSE _regex_fallback_extract(text, language)

(***************************************************************************)
(* A reply of the model hook or of the remote model: the call raises, or   *)
(* returns text that is JSON or not; payload is what json.loads gives.     *)
(***************************************************************************)
Reply(raises, json, intent, entities, language) ==
    [raises |-> raises, json |-> json,
     payload |-> [intent |-> intent, entities |-> entities,
                  language |-> language]]

\* json.loads followed by IntentExtraction.model_validate
ParseReply(reply) ==
    IF ~reply.json THEN Raised("JSONDecodeError")
    ELSE LET p == reply.payload
         IN  IF \/ p.intent \notin Intent
                \/ p.language = None
                \/ (p.entities # None /\ ~ValidReservationRequest(p.entities[1]))
             THEN Raised("ValidationError")
             ELSE IntentExtraction(p.intent, p.entities, p.language[1])

\* _llm_classify (intent.py:139-170): chat_completion, then the parse
_llm_classify(reply) ==
    IF reply.raises THEN Raised("ExternalAPIError") ELSE ParseReply(reply)

\* a call of the model hook ("llm") or of the remote model
\* ("chat_completion")
ModelCall(op) == [op |-> op]

\* what classify_intent_and_entities gives back, with the calls it made
Classification(extraction, asked) ==
    [raised |-> extraction.raised, intent |-> extraction.intent,
     entities |-> extraction.entities, language |-> extraction.language,
     asked |-> asked]

\* the condition of intent.py:203 with the credential left out
RemoteEnabledFlagOnly(use_llm_fallback, config) ==
    use_llm_fallback /\ config.llm_intent_enabled

\* the condition under which the remote model is asked (intent.py:203)
RemoteEnabled(use_llm_fallback, config) ==
    /\ use_llm_fallback
    /\ config.llm_intent_enabled
    /\ TruthyStr(config.openai_api_key)

\* the handler of intent.py:198 catching nothing
HookParseErrorsNone == {}

\* the exceptions caught around the parse of the hook's reply
\* (intent.py:198)
HookParseErrors == { "JSONDecodeError", "ValidationError" }

\* the body of classify_intent_and_entities (intent.py:193-213); fallback
\* is what _regex_fallback_extract gives for the text and the language hint
ClassifyOrFallBack(llm, use_llm_fallback, config, reply, fallback) ==
    IF llm
    THEN IF reply.raises
         THEN Classification(Raised("HookError"), <<ModelCall("llm")>>)
         ELSE Classification(
                  IF ParseReply(reply).raised \in HookParseErrors
                  THEN fallback
                  ELSE ParseReply(reply),
                  <<ModelCall("llm")>>)
    ELSE IF RemoteEnabled(use_llm_fallback, config)
         THEN Classification(
                  IF _llm_classify(reply).raised # ""
                  THEN fallback
                  ELSE _llm_classify(reply),
                  <<ModelCall("chat_completion")>>)
         ELSE Classification(fallback, <<>>)

\* classify_intent_and_entities (intent.py:173-213).  llm tells whether a
\* model hook is supplied; reply is what the hook or the remote model answers.
classify_intent_and_entities(text, language, llm, use_llm_fallback, config, reply) ==
    ClassifyOrFallBack(llm, use_llm_fallback, config, reply,
                       RegexFallback(text, language))

(***************************************************************************)
(* The reservation store (app/crm/mock_db.py).  rows[i] is the row with    *)
(* id i of the table reservations (id SERIAL).  up tells whether a         *)
(* connection can be opened; a statement that finds no row makes           *)
(* _row_to_reservation(None) raise TypeError.                              *)
(***************************************************************************)
StoreResult(raised, record, rows) ==
    [raised |-> raised, record |-> record, rows |-> rows]

create_reservation(rows, up, payload) ==
    IF ~up THEN StoreResult("OperationalError", None, rows)
    ELSE LET row == [reservation_id |-> Len(rows) + 1,
                     name |-> payload.name,
                     datetime |-> payload.datetime,
                     people |-> payload.people,
                     phone |-> None, notes |-> None,
                     status |-> "active"]
         IN  StoreResult("", Some(row), Append(rows, row))

update_reservation(rows, up, reservation_id, payload) ==
    IF ~up THEN StoreResult("OperationalError", None, rows)
    ELSE IF reservation_id \notin DOMAIN rows
    THEN StoreResult("TypeError", None, rows)
    ELSE LET old == rows[reservation_id]
             row == [old EXCEPT
                       !.name = IF payload.name # None
                                THEN payload.name[1] ELSE @,
                       !.datetime = IF payload.datetime # None
                                    THEN payload.datetime[1] ELSE @,
                       !.people = IF payload.people # None
                                  THEN payload.people[1] ELSE @]
         IN  StoreResult("", Some(row), [rows EXCEPT ![reservation_id] = row])

cancel_reservation(rows, up, reservation_id) ==
    IF ~up THEN StoreResult("OperationalError", None, rows)
    ELSE IF reservation_id \notin DOMAIN rows
    THEN StoreResult("TypeError", None, rows)
    ELSE LET row == [rows[reservation_id] EXCEPT !.status = "cancelled"]
         IN  StoreResult("", Some(row), [rows EXCEPT ![reservation_id] = row])

(***************************************************************************)
(* CallState (app/agent/state.py) and ToolResult (app/agent/models.py).    *)
(* A payload is <<>> for the empty dict and <<record>> otherwise.          *)
(***************************************************************************)
HistoryMessage(role, text) == [role |-> role, text |-> text]

CallState(language, last_user_text) ==
    [language |-> language, history |-> <<>>,
     last_user_text |-> last_user_text, intent |-> None, entities |-> None,
     tool_results |-> <<>>, final_answer |-> None]

add_history(state, role, text) ==
    [state EXCEPT !.history = Append(@, HistoryMessage(role, text))]

ToolResult(tool, payload, error) ==
    [tool |-> tool, payload |-> payload, error |-> error]

\* a call of a store operation made by the dispatcher
StoreCall(op, reservation_id) == [op |-> op, reservation_id |-> reservation_id]

DispatchResult(raised, state, rows, calls) ==
    [raised |-> raised, state |-> state, rows |-> rows, calls |-> calls]

(***************************************************************************)
(* handle_crm_tools (tools_crm.py:11-74), called by run_agent without an   *)
(* adapter: CRMPostgresMock() runs _ensure_tables, which connects, when    *)
(* settings.db_auto_create is set.                                         *)
(***************************************************************************)
\* a slip that asks for one of the three fields instead of all of them
MissingRequiredFieldsAny(entities) ==
    ~(\/ TruthyStr(entities.name)
      \/ TruthyObj(entities.datetime)
      \/ TruthyInt(entities.people))

\* not (entities.name and entities.datetime and entities.people)
MissingRequiredFields(entities) ==
    ~(/\ TruthyStr(entities.name)
      /\ TruthyObj(entities.datetime)
      /\ TruthyInt(entities.people))

\* not entities.reservation_id
MissingReservationId(entities) == ~TruthyInt(entities.reservation_id)

\* ReservationCreate (app/crm/base.py): name, datetime and people >= 1
\* are required
ValidReservationCreate(entities) ==
    /\ entities.name # None
    /\ entities.datetime # None
    /\ entities.people # None
    /\ entities.people[1] >= 1

handle_crm_tools(state, rows, up, config) ==
    LET intent == state.intent
        entities == IF state.entities # None THEN state.entities[1]
                    ELSE EmptyRequest
        setup == IF config.db_auto_create
                 THEN <<StoreCall("_ensure_tables", None)>> ELSE <<>>
        Missing(tool, error) ==
            DispatchResult("",
                [state EXCEPT !.tool_results =
                    Append(@, ToolResult(tool, <<>>, Some(error)))],
                rows, setup)
        Called(tool, op, id, result) ==
            IF result.raised # ""
            THEN DispatchResult(result.raised, state, result.rows,
                                Append(setup, StoreCall(op, id)))
            ELSE DispatchResult("",
                    [state EXCEPT !.tool_results =
                        Append(@, ToolResult(tool, result.record, None))],
                    result.rows, Append(setup, StoreCall(op, id)))
    IN  IF config.db_auto_create /\ ~up
        THEN DispatchResult("OperationalError", state, rows, setup)
        ELSE IF intent = Some("create_reservation")
        THEN IF MissingRequiredFields(entities)
             THEN Missing("crm_create", "missing_required_fields")
             ELSE IF ~ValidReservationCreate(entities)
             THEN DispatchResult("ValidationError", state, rows, setup)
             ELSE Called("crm_create", "create_reservation", None,
                         create_reservation(rows, up,
                             [name |-> entities.name[1],
                              datetime |-> entities.datetime[1],
                              people |-> entities.people[1]]))
        ELSE IF intent = Some("update_reservation")
        THEN IF MissingReservationId(entities)
             THEN Missing("crm_update", "missing_reservation_id")
             ELSE Called("crm_update", "update_reservation",
                         entities.reservation_id,
                         update_reservation(rows, up,
                             entities.reservation_id[1],
                             [name |-> entities.name,
                              datetime |-> entities.datetime,
                              people |-> entities.people]))
        ELSE IF intent = Some("cancel_reservation")
        THEN IF MissingReservationId(entities)
             THEN Missing("crm_cancel", "missing_reservation_id")
             ELSE Called("crm_cancel", "cancel_reservation",
                         entities.reservation_id,
                         cancel_reservation(rows, up,
                             entities.reservation_id[1]))
        ELSE DispatchResult("", state, rows, setup)

(***************************************************************************)
(* handle_menu_tools (tools_menu.py:8-15).  menu is the answer of          *)
(* retrieve_menu_context: it raises, or returns a list of items.           *)
(***************************************************************************)
MenuCall(query, language) ==
    [op |-> "retrieve_menu_context", query |-> query, language |-> language]

\* the newest user entry of the history, last_user_text not looked at
LastUserMessageFromHistory(state) ==
    LET users == { i \in DOMAIN state.history :
                     state.history[i].role = "user" }
    IN  IF users = {} THEN None
        ELSE Some(state.history[CHOOSE i \in users :
                                   \A j \in users : j <= i].text)

\* CallState.last_user_message (state.py:28-34)
last_user_message(state) ==
    IF TruthyStr(state.last_user_text) THEN state.last_user_text
    ELSE LET users == { i \in DOMAIN state.history :
                          state.history[i].role = "user" }
         IN  IF users = {} THEN None
             ELSE Some(state.history[CHOOSE i \in users :
                                        \A j \in users : j <= i].text)

handle_menu_tools(state, rows, menu) ==
    LET message == last_user_message(state)
        query == IF TruthyStr(message) THEN message[1] ELSE <<>>
        language == IF TruthyStr(state.language) THEN state.language[1]
                    ELSE "en"
        calls == <<MenuCall(query, language)>>
    IN  IF menu.raises
        THEN DispatchResult("ExternalAPIError", state, rows, calls)
        ELSE DispatchResult("",
                [state EXCEPT !.tool_results =
                    Append(@, ToolResult("menu_context",
                                         Some([items |-> menu.items]), None))],
                rows, calls)

(***************************************************************************)
(* respond (respond.py:63-122).  A phrase of the table _LANGUAGE_PROMPTS   *)
(* is written as the one token "<language>:<key>"; an answer is a text     *)
(* made of such tokens.                                                    *)
(***************************************************************************)
PromptLanguages == { "en", "ru", "uk", "sk" }

\* _prompts(language)[key]
Prompt(language, key) ==
    <<(IF language \in PromptLanguages THEN language ELSE "en")
        \o ":" \o key>>

\* separator.join(parts)
RECURSIVE Join(_, _)
Join(separator, parts) ==
    IF parts = <<>> THEN <<>>
    ELSE IF Len(parts) = 1 THEN parts[1]
    ELSE parts[1] \o separator \o Join(separator, Tail(parts))

\* a reply that asks for clarification whatever was composed
AgentResponseClarifying(answer_text, actions, language) ==
    [answer_text |-> answer_text, actions |-> <<"clarify">>,
     language |-> language]

AgentResponse(answer_text, actions, language) ==
    [answer_text |-> answer_text, actions |-> actions, language |-> language]

\* f"{item.get('name')} ({item.get('price')})"
MenuLine(item) ==
    <<(IF item.name = None THEN "None" ELSE item.name[1]) \o " ("
        \o (IF item.price = None THEN "None" ELSE item.price[1]) \o ")">>

\* a composer that asks for the first missing field only
MissingFieldPromptsFirstOnly(language, entities) ==
    IF entities = None \/ ~TruthyStr(entities[1].name)
    THEN <<Prompt(language, "missing_name")>>
    ELSE IF ~TruthyObj(entities[1].datetime)
    THEN <<Prompt(language, "missing_datetime")>>
    ELSE IF ~TruthyInt(entities[1].people)
    THEN <<Prompt(language, "missing_people")>>
    ELSE <<>>

\* missing_fields of the create_reservation branch (respond.py:92-98)
MissingFieldPrompts(language, entities) ==
    (IF entities = None \/ ~TruthyStr(entities[1].name)
     THEN <<Prompt(language, "missing_name")>> ELSE <<>>)
    \o (IF entities = None \/ ~TruthyObj(entities[1].datetime)
        THEN <<Prompt(language, "missing_datetime")>> ELSE <<>>)
    \o (IF entities = None \/ ~TruthyInt(entities[1].people)
        THEN <<Prompt(language, "missing_people")>> ELSE <<>>)

respond(state) ==
    LET language == IF TruthyStr(state.language) THEN state.language[1]
                    ELSE "en"
        P(key) == Prompt(language, key)
        intent == state.intent
        entities == state.entities
        Lacks(Truthy(_), field) ==
            entities = None \/ ~Truthy(entities[1][field])
        menu_found == { i \in DOMAIN state.tool_results :
                          state.tool_results[i].tool = "menu_context" }
        menu_results ==
            IF menu_found = {} THEN <<>>
            ELSE LET payload == state.tool_results[Min(menu_found)].payload
                 IN  IF payload = <<>> THEN <<>> ELSE payload[1].items
        named == SelectSeq(menu_results,
                           LAMBDA item : item.name # None /\ item.name[1] # "")
        summarized == Join(Chars(", "),
                           [i \in DOMAIN named |-> MenuLine(named[i])])
        missing_fields == MissingFieldPrompts(language, entities)
        answer ==
            IF intent = Some("hours_info") THEN <<P("hours"), <<>>>>
            ELSE IF intent = Some("menu_question")
            THEN IF menu_results = <<>> \/ summarized = <<>>
                 THEN <<P("menu_empty"), <<>>>>
                 ELSE <<summarized, <<>>>>
            ELSE IF intent = Some("create_reservation")
            THEN IF missing_fields # <<>>
                 THEN <<Join(Chars(" "), missing_fields), <<"clarify">>>>
                 ELSE <<P("created"), <<>>>>
            ELSE IF intent = Some("update_reservation")
            THEN IF Lacks(TruthyInt, "reservation_id")
                 THEN <<P("missing_reservation_id"), <<"clarify">>>>
                 ELSE <<P("updated"), <<>>>>
            ELSE IF intent = Some("cancel_reservation")
            THEN IF Lacks(TruthyInt, "reservation_id")
                 THEN <<P("missing_reservation_id"), <<"clarify">>>>
                 ELSE <<P("cancelled"), <<>>>>
            ELSE <<P("generic"), <<>>>>
    IN  [state EXCEPT !.final_answer =
            Some(AgentResponse(answer[1], answer[2], language))]

(***************************************************************************)
(* The conversation driver (app/agent/graph.py).                           *)
(***************************************************************************)
\* the texts of the user-role entries of a history, in order
UserTexts(history) ==
    LET users == SelectSeq(history, LAMBDA msg : msg.role = "user")
    IN  [i \in DOMAIN users |-> users[i].text]

\* a slip that appends the utterance without looking at the history
EnsureHistoryAlways(state) ==
    IF TruthyStr(state.last_user_text)
    THEN add_history(state, "user", state.last_user_text[1])
    ELSE state

\* a slip that tests last_user_text against None instead of its truth value
EnsureHistoryNotNone(state) ==
    IF /\ state.last_user_text # None
       /\ ~\E i \in DOMAIN state.history :
              /\ state.history[i].role = "user"
              /\ state.history[i].text = state.last_user_text[1]
    THEN add_history(state, "user", state.last_user_text[1])
    ELSE state

_ensure_history(state) ==
    IF /\ TruthyStr(state.last_user_text)
       /\ ~\E i \in DOMAIN state.history :
              /\ state.history[i].role = "user"
              /\ state.history[i].text = state.last_user_text[1]
    THEN add_history(state, "user", state.last_user_text[1])
    ELSE state

\* max_turns: int = 2 (graph.py:24)
DefaultMaxTurns == 2

\* a slip that takes the first max_turns utterances
TurnWindowFirst(user_messages, max_turns) ==
    SubSeq(user_messages, 1,
           IF max_turns < Len(user_messages)
           THEN max_turns ELSE Len(user_messages))

\* user_messages[max(0, len(user_messages) - max_turns):]
TurnWindow(user_messages, max_turns) ==
    LET start_index == IF Len(user_messages) - max_turns > 0
                       THEN Len(user_messages) - max_turns ELSE 0
    IN  SubSeq(user_messages, start_index + 1, Len(user_messages))

\* a slip that never leaves the loop early
LoopBreaksNever(final_answer) == FALSE

\* "clarify" not in call_state.final_answer.actions
LoopBreaks(final_answer) == "clarify" \notin Range(final_answer.actions)

(***************************************************************************)
(* Settings (app/core/config.py) and what the collaborators answer.        *)
(***************************************************************************)
SettingsMaxTurns == 8

Settings(llm_intent_enabled, openai_api_key, db_auto_create) ==
    [max_turns |-> SettingsMaxTurns,
     llm_intent_enabled |-> llm_intent_enabled,
     openai_api_key |-> openai_api_key,
     db_auto_create |-> db_auto_create]

Configs ==
    { Settings(enabled, key, auto_create) :
        enabled \in BOOLEAN, key \in { None, Some("sk-test") },
        auto_create \in BOOLEAN }

AlRequest ==
    [name |-> Some(Chars("Al")), datetime |-> Some(<<2025, 5, 10, 18, 30>>),
     people |-> Some(2), reservation_id |-> None]

RaisingReply == Reply(TRUE, FALSE, "", None, None)

NotJsonReply == Reply(FALSE, FALSE, "", None, None)

CreateFullReply ==
    Reply(FALSE, TRUE, "create_reservation", Some(AlRequest), Some("en"))

CreateEmptyNameReply ==
    Reply(FALSE, TRUE, "create_reservation",
          Some([AlRequest EXCEPT !.name = Some(<<>>)]), Some("en"))

CancelZeroReply ==
    Reply(FALSE, TRUE, "cancel_reservation",
          Some([EmptyRequest EXCEPT !.reservation_id = Some(0)]), Some("de"))

CreateNoPeopleReply ==
    Reply(FALSE, TRUE, "create_reservation",
          Some([AlRequest EXCEPT !.people = None]), Some("en"))

GenericEmptyEntitiesReply ==
    Reply(FALSE, TRUE, "generic", Some(EmptyRequest), Some("en"))

\* replies that are JSON but not an IntentExtraction: an intent outside
\* the enumeration, no language, a party size below 1
BadIntentReply == Reply(FALSE, TRUE, "order_pizza", None, Some("en"))

NoLanguageReply == Reply(FALSE, TRUE, "cancel_reservation", None, None)

ZeroPeopleReply ==
    Reply(FALSE, TRUE, "create_reservation",
          Some([AlRequest EXCEPT !.people = Some(0)]), Some("en"))

MalformedReplies ==
    { NotJsonReply, BadIntentReply, NoLanguageReply, ZeroPeopleReply }

Replies ==
    { RaisingReply, CreateFullReply, CreateEmptyNameReply, CancelZeroReply,
      CreateNoPeopleReply, GenericEmptyEntitiesReply }
    \cup MalformedReplies

MenuAnswers ==
    { [raises |-> TRUE, items |-> <<>>],
      [raises |-> FALSE, items |-> <<>>],
      [raises |-> FALSE,
       items |-> << [name |-> None, price |-> Some("3")] >>],
      [raises |-> FALSE,
       items |-> << [name |-> Some("Borscht"), price |-> Some("7")],
                    [name |-> None, price |-> Some("3")] >>] }

\* the reservation the store holds when the call begins
InitialRows ==
    << [reservation_id |-> 1, name |-> Chars("Bo"),
        datetime |-> <<2025, 5, 9, 12, 0>>, people |-> 4,
        phone |-> None, notes |-> None, status |-> "active"] >>

(***************************************************************************)
(* The retryable wrapper (core/retry.py).  An exception is its class and,  *)
(* for ExternalAPIError, its status_code (errors.py:4-16), None when the   *)
(* service gave none.                                                      *)
(***************************************************************************)
Exc(class, status_code) == [class |-> class, status_code |-> status_code]

\* settings.retry_max_attempts (config.py:12)
RetryMaxAttempts == 4

\* a predicate that retries the transport failures only
IsRetryableTransportOnly(exc) ==
    exc.class \in { "Timeout", "ConnectionError" }

\* _is_retryable_exception (retry.py:16-23)
_is_retryable_exception(exc) ==
    IF exc.class \in { "Timeout", "ConnectionError" }
    THEN TRUE
    ELSE IF exc.class = "ExternalAPIError"
    THEN IF exc.status_code = None
         THEN TRUE
         ELSE exc.status_code[1] = 429 \/ exc.status_code[1] >= 500
    ELSE FALSE

\* stop_after_attempt(settings.retry_max_attempts) (retry.py:46)
stop_after_attempt(max_attempt_number, attempt_number) ==
    attempt_number >= max_attempt_number

\* what one attempt of the wrapped call can do: return a value or raise
AttemptOutcomes ==
    { [raised |-> None, value |-> Some("result")] }
    \cup { [raised |-> Some(exc), value |-> None] :
             exc \in { Exc("Timeout", None), Exc("ConnectionError", None),
                       Exc("ValueError", None) }
                     \cup { Exc("ExternalAPIError", status) :
                              status \in { None, Some(400), Some(404),
                                           Some(429), Some(500), Some(503) } } }

\* the state of a call through the wrapper: where it is, the number of the
\* attempt, the limit it was built with and what each attempt did
RetryState(position, attempt_number, max_attempts, attempts) ==
    [pc |-> position, attempt_number |-> attempt_number,
     max_attempts |-> max_attempts, attempts |-> attempts]

(***************************************************************************)
(* The Twilio webhooks (twilio/webhooks.py, twilio/twiml.py,               *)
(* twilio/security.py) and the application around them (main.py).  A TwiML *)
(* document is the verbs it holds; a text to speak is named by a key       *)
(* ("apology" is the message of main.py:192).                              *)
(***************************************************************************)
create_twiml_response(say, play, gather, hangup) ==
    [gather |-> gather, say |-> say, play |-> play, hangup |-> hangup]

\* the Gather verb of webhooks.py:90-100, 139-146 and 203-214
Gather(say, play) ==
    [input |-> "speech", action |-> "/twilio/voice", method |-> "POST",
     say |-> say, play |-> play]

Response(status_code, media_type, content) ==
    [status_code |-> status_code, media_type |-> media_type,
     content |-> content]

JSONResponse(status_code, detail) ==
    Response(status_code, "application/json", detail)

\* a predicate that takes no path for a Twilio path
IsTwilioRequestNever(path) == FALSE

\* _is_twilio_request (main.py:94-95): the path starts with /twilio/
_is_twilio_request(path) ==
    /\ Len(path) >= 8
    /\ SubSeq(path, 1, 8) = Chars("/twilio/")

\* _twilio_error_response (main.py:98-100)
_twilio_error_response(message, status_code) ==
    Response(status_code, "application/xml",
             create_twiml_response(Some(message), None, None, FALSE))

\* the exception handlers of main.py:144-194, by the class of the exception
exception_handler(path, exc) ==
    IF _is_twilio_request(path)
    THEN _twilio_error_response("apology", 200)
    ELSE IF exc = "ValidationError"
    THEN JSONResponse(422, "errors")
    ELSE IF exc = "ExternalAPIError"
    THEN JSONResponse(503, "Upstream error")
    ELSE JSONResponse(500, "Internal Server Error")

\* rate_limit_handler (main.py:176-186)
rate_limit_handler(path) ==
    IF _is_twilio_request(path)
    THEN _twilio_error_response("too_many_requests", 429)
    ELSE JSONResponse(429, "Rate limit exceeded. Please slow down.")

\* verify_twilio_signature (security.py:41-59): signature is what the
\* X-Twilio-Signature header holds, auth_token whether the token is set
verify_twilio_signature(signature, auth_token) ==
    IF signature = "missing"
    THEN FALSE
    ELSE IF ~auth_token
    THEN FALSE
    ELSE signature = "valid"

\* the POST routes main.py registers under /twilio/ (main.py:353-377), and
\* the callback path the Record verb names (webhooks.py:84)
IncomingPath == Chars("/twilio/incoming")

VoicePath == Chars("/twilio/voice")

StatusPath == Chars("/twilio/status")

RecordingPath == Chars("/twilio/recording-status")

Routes == { IncomingPath, VoicePath, StatusPath }

\* the statuses for which handle_call_status writes (webhooks.py:251)
EndedStatuses == { "completed", "failed", "busy", "no-answer", "canceled" }

\* webhooks.py:183-186
needs_clarification(final_answer) ==
    /\ final_answer # None
    /\ "clarify" \in Range(final_answer[1].actions)

\* webhooks.py:179-181 and 189-192: the text given to tts_to_file
tts_text(final_answer) ==
    [answer_text |-> IF final_answer # None
                     THEN final_answer[1].answer_text
                     ELSE <<"sorry_could_not_process">>,
     goodbye |-> ~needs_clarification(final_answer)]

\* a reply that hangs up whatever the agent answered
VoiceTwimlHangup(final_answer) ==
    create_twiml_response(None, Some(tts_text(final_answer)), None, TRUE)

\* webhooks.py:201-220: Gather with the audio when the agent asks back,
\* else Play and Hangup
VoiceTwiml(final_answer) ==
    IF needs_clarification(final_answer)
    THEN create_twiml_response(
             None, None, Some(Gather(None, Some(tts_text(final_answer)))),
             FALSE)
    ELSE create_twiml_response(None, Some(tts_text(final_answer)), None, TRUE)

\* the largest turn_id of a call in the turns table, 0 when it has none
\* (conversations.py:80-84, 136-141: COALESCE(MAX(turn_id), 0))
MaxTurnId(table, call_id) ==
    LET ids == { row.turn_id : row \in { t \in table : t.call_id = call_id } }
                 \cup { 0 }
    IN  CHOOSE i \in ids : \A j \in ids : j <= i

\* ConversationStore.next_turn_id (conversations.py:131-144)
next_turn_id(table, call_id) == MaxTurnId(table, call_id) + 1

\* the INSERT of ConversationStore.create_turn (conversations.py:86-108)
\* under PRIMARY KEY (call_id, turn_id) (conversations.py:388)
create_turn(table, call_id, turn_id, by) ==
    IF \E row \in table : row.call_id = call_id /\ row.turn_id = turn_id
    THEN [raised |-> "UniqueViolation", table |-> table]
    ELSE [raised |-> "",
          table |-> table \cup
                    { [call_id |-> call_id, turn_id |-> turn_id, by |-> by] }]

\* a request to the application: its path, the CallSid, the signature
\* header, whether the auth token is configured, whether the rate limit of
\* the route is exceeded, whether the form validates as the payload model,
\* SpeechResult and CallStatus / RecordingStatus
WebRequest(path, call_id, signature, auth_token, limited, valid, speech, status) ==
    [path |-> path, call_id |-> call_id, signature |-> signature,
     auth_token |-> auth_token, limited |-> limited, valid |-> valid,
     speech |-> speech, status |-> status]

\* a request in the application: where its handler is, the turn id it
\* holds, the agent's final_answer, the collaborator calls it has made, the
\* exception it raised and the response sent
Handling(request, position, effects, failure, response) ==
    [request |-> request, pc |-> position, turn_id |-> None,
     final_answer |-> None, effects |-> effects, failure |-> failure,
     response |-> response]

NoRequest == Handling(None, "none", <<>>, "", None)

\* the two requests in the application
RequestIds == { "first", "second" }

Responded(request, response) ==
    Handling(Some(request), "done", <<>>, "", Some(response))

\* the exception leaves the handler and main.py's handler answers
Fails(handling, effect, exc) ==
    [handling EXCEPT
       !.pc = "done",
       !.effects = Append(@, effect),
       !.failure = exc,
       !.response = Some(exception_handler(handling.request[1].path, exc))]

\* the part of each handler after its signature and payload checks, up to
\* its first collaborator call (webhooks.py:58-74, 128-155, 242-260,
\* 280-307)
HandlerBody(request) ==
    IF request.path = VoicePath
    THEN IF request.speech = <<>>
         THEN Responded(request,
                  Response(200, "application/xml",
                      create_twiml_response(
                          None, None, Some(Gather(Some("repeat"), None)),
                          FALSE)))
         ELSE Handling(Some(request), "agent", <<>>, "", None)
    ELSE IF request.path = IncomingPath
    THEN Handling(Some(request), "store", <<>>, "", None)
    ELSE IF request.path = StatusPath
    THEN IF request.status \in EndedStatuses
         THEN Handling(Some(request), "store", <<>>, "", None)
         ELSE Responded(request,
                  Response(200, "application/xml",
                      create_twiml_response(None, None, None, FALSE)))
    ELSE IF request.status = "completed"
    THEN Handling(Some(request), "store", <<>>, "", None)
    ELSE Responded(request,
             Response(200, "application/xml",
                 create_twiml_response(None, None, None, FALSE)))

\* the head of the four handlers (webhooks.py:41-57, 107-127, 229-241,
\* 267-279)
Handler(request) ==
    IF ~verify_twilio_signature(request.signature, request.auth_token)
    THEN Responded(request,
             Response(403, "application/xml",
                 create_twiml_response(Some("not_verified"), None, None,
                                       FALSE)))
    ELSE IF ~request.valid
    THEN Responded(request,
             Response(422, "application/xml",
                 create_twiml_response(Some("invalid_request"), None, None,
                                       FALSE)))
    ELSE HandlerBody(request)

\* the application (main.py:353-377): a path without a route is answered
\* with 404, the limiter of the route comes before the handler
App(request) ==
    IF request.path \notin Routes
    THEN Responded(request, JSONResponse(404, "Not Found"))
    ELSE IF request.limited
    THEN Responded(request, rate_limit_handler(request.path))
    ELSE Handler(request)

(***************************************************************************)
(* Utterances given to the pure functions: up to MaxWords words of the     *)
(* vocabulary, separated by one space.                                     *)
(***************************************************************************)
Vocabulary ==
    { Chars("cancel"), Chars("CANCEL"), Chars("my"), Chars("booking"),
      Chars("Reservation"), Chars("change"), Chars("menu"), Chars("open"),
      Chars("hello"), Chars("#12"),
      \* ОТМЕНА
      <<"U+041E", "U+0422", "U+041C", "U+0415", "U+041D", "U+0410">>,
      \* бронь
      <<"U+0431", "U+0440", "U+043E", "U+043D", "U+044C">> }

RECURSIVE Phrases(_)
Phrases(n) ==
    IF n = 0 THEN { <<>> }
    ELSE Phrases(n - 1) \cup
         { p \o (IF p = <<>> THEN <<>> ELSE <<" ">>) \o w :
             p \in Phrases(n - 1), w \in Vocabulary }

Texts == Phrases(MaxWords)

(***************************************************************************)
(* State.  call_state is the CallState the caller holds, rows the table    *)
(* of the reservation store and config the settings of the process.  pc    *)
(* is "idle" between calls of run_agent and "running" inside its loop;     *)
(* frame holds the locals of the call.  entry, turn_log and outcome        *)
(* record, for the last call, the CallState it was given, one entry per    *)
(* loop iteration it began, and how it ended.  fn_text and fn_intent are   *)
(* the argument and the result of _fallback_intent; fn_args holds the      *)
(* arguments of the classifier, fn_classified what                         *)
(* classify_intent_and_entities gives for them and fn_extracted what       *)
(* _regex_fallback_extract gives for their text and language.  retry is    *)
(* the state of one call through the retryable wrapper.  web holds the     *)
(* requests the application is handling or has answered and turns the      *)
(* turns table of the conversation store.                                  *)
(***************************************************************************)
VARIABLES call_state, rows, config, pc, frame, entry, turn_log, outcome,
          invoked, fn_text, fn_intent, fn_args, fn_classified, fn_extracted,
          retry, web, turns

agentVars ==
    <<call_state, rows, config, pc, frame, entry, turn_log, outcome, invoked>>

fnVars == <<fn_text, fn_intent, fn_args, fn_classified, fn_extracted>>

edgeVars == <<retry, web, turns>>

vars ==
    <<call_state, rows, config, pc, frame, entry, turn_log, outcome, invoked,
      fn_text, fn_intent, fn_args, fn_classified, fn_extracted, retry, web,
      turns>>

Frame(llm, max_turns, messages) ==
    [llm |-> llm, max_turns |-> max_turns, messages |-> messages]

Entry(state, max_turns, llm) ==
    [state |-> state, max_turns |-> max_turns, llm |-> llm]

TurnRecord(text, hint, stage, raised, state, asked, calls) ==
    [text |-> text, hint |-> hint, stage |-> stage, raised |-> raised,
     intent |-> state.intent, language |-> state.language,
     entities |-> state.entities, tool_results |-> state.tool_results,
     reply |-> state.final_answer, asked |-> asked, calls |-> calls]

\* the utterances, budgets and settings the driver is run with
DriverUtterances == { BookTable, CancelBooking, Menu }

DriverConfigs == { Settings(TRUE, None, TRUE) }

Budgets == { None } \cup { Some(n) : n \in 1..MaxBudget }

AgentIdle ==
    /\ rows = InitialRows
    /\ pc = "idle"
    /\ frame = Frame(FALSE, 0, <<>>)
    /\ entry = Entry(call_state, None, FALSE)
    /\ turn_log = <<>>
    /\ outcome = "none"
    /\ invoked = 0

\* no request in the application and an empty turns table
WebIdle ==
    /\ web = [r \in RequestIds |-> NoRequest]
    /\ turns = {}

\* no call through the retryable wrapper either
EdgeIdle ==
    /\ retry = RetryState("idle", 0, 0, <<>>)
    /\ WebIdle

ClassifierIdle ==
    /\ fn_args = None
    /\ fn_classified = None
    /\ fn_extracted = None

FnIdle ==
    /\ fn_text = <<>>
    /\ fn_intent = "None"
    /\ ClassifierIdle

\* a CallState as the request handlers build it (webhooks.py:149-154,
\* main.py:255-259, 286-290), before any utterance
Init ==
    /\ call_state \in { CallState(language, None) :
                          language \in { None, Some("en") } }
    /\ config \in DriverConfigs
    /\ AgentIdle
    /\ EdgeIdle
    /\ FnIdle

\* between two calls of run_agent nothing of the last call is left but the
\* CallState and the store
Forget ==
    /\ entry' = Entry(call_state', None, FALSE)
    /\ turn_log' = <<>>
    /\ outcome' = "none"

\* the caller queues an utterance with CallState.add_history
AddHistory(text) ==
    /\ pc = "idle"
    /\ Len(UserTexts(call_state.history)) < MaxUtterances
    /\ call_state' = add_history(call_state, "user", text)
    /\ Forget
    /\ UNCHANGED <<rows, config, pc, frame, invoked, fnVars, edgeVars>>

\* the caller puts the next utterance into last_user_text
Submit(text) ==
    /\ pc = "idle"
    /\ call_state.last_user_text # Some(text)
    /\ call_state' = [call_state EXCEPT !.last_user_text = Some(text)]
    /\ Forget
    /\ UNCHANGED <<rows, config, pc, frame, invoked, fnVars, edgeVars>>

\* run_agent up to its loop (graph.py:21-33); max_turns is None when the
\* caller passes no budget
RunAgent(max_turns, llm) ==
    /\ pc = "idle"
    /\ Len(UserTexts(_ensure_history(call_state).history)) <= MaxUtterances
    /\ LET ensured == _ensure_history(call_state)
           user_messages == UserTexts(ensured.history)
           budget == IF max_turns = None THEN DefaultMaxTurns
                     ELSE max_turns[1]
       IN  /\ call_state' = ensured
           /\ entry' = Entry(call_state, max_turns, llm)
           /\ IF user_messages = <<>>
              THEN /\ pc' = "idle"
                   /\ outcome' = "returned"
                   /\ frame' = Frame(FALSE, 0, <<>>)
              ELSE /\ pc' = "running"
                   /\ outcome' = "running"
                   /\ frame' = Frame(llm, budget,
                                     TurnWindow(user_messages, budget))
    /\ turn_log' = <<>>
    /\ invoked' = invoked + 1
    /\ UNCHANGED <<rows, config, fnVars, edgeVars>>

\* how an iteration of the loop ends: the CallState and the store it leaves,
\* and whether run_agent goes on, returns or raises
TurnEnds(stage, message, state, store, raised, asked, calls, position, result) ==
    /\ call_state' = state
    /\ rows' = store
    /\ turn_log' = Append(turn_log,
                          TurnRecord(message, call_state.language, stage,
                                     raised, state, asked, calls))
    /\ frame' = IF position = "idle" THEN Frame(FALSE, 0, <<>>)
                ELSE [frame EXCEPT !.messages = Tail(@)]
    /\ pc' = position
    /\ outcome' = result

\* graph.py:57-58: break after a definitive reply, else the next utterance
Answered(message, asked, dispatch, answered) ==
    IF LoopBreaks(answered.final_answer[1]) \/ Tail(frame.messages) = <<>>
    THEN TurnEnds("reply", message, answered, dispatch.rows, "", asked,
                  dispatch.calls, "idle", "returned")
    ELSE TurnEnds("reply", message, answered, dispatch.rows, "", asked,
                  dispatch.calls, "running", "running")

\* graph.py:55: the reply goes into the history
Answer(responded) ==
    add_history(responded, "assistant", responded.final_answer[1].answer_text)

\* graph.py:54-58, unless the dispatcher raised
Dispatched(message, asked, dispatch) ==
    IF dispatch.raised # ""
    THEN TurnEnds("dispatch", message, dispatch.state, dispatch.rows,
                  dispatch.raised, asked, dispatch.calls, "idle", "raised")
    ELSE Answered(message, asked, dispatch, Answer(respond(dispatch.state)))

\* graph.py:45-52
Dispatch(classified, up, menu) ==
    IF classified.intent[1] \in
         { "create_reservation", "update_reservation", "cancel_reservation" }
    THEN handle_crm_tools(classified, rows, up, config)
    ELSE IF classified.intent[1] = "menu_question"
    THEN handle_menu_tools(classified, rows, menu)
    ELSE DispatchResult("", classified, rows, <<>>)

\* the assignments of graph.py:40-43 with the fields of the turn before
\* kept where this turn extracted none
AssignExtractionMerging(started, extraction) ==
    [started EXCEPT !.intent = Some(extraction.intent),
                    !.entities = IF extraction.entities = None
                                 THEN @ ELSE extraction.entities,
                    !.language = Some(extraction.language),
                    !.tool_results = <<>>]

\* the assignments of graph.py:40-42 without the reset of line 43
AssignExtractionNoReset(started, extraction) ==
    [started EXCEPT !.intent = Some(extraction.intent),
                    !.entities = extraction.entities,
                    !.language = Some(extraction.language)]

\* graph.py:40-43: the extraction goes into the CallState and
\* tool_results is emptied
AssignExtraction(started, extraction) ==
    [started EXCEPT !.intent = Some(extraction.intent),
                    !.entities = extraction.entities,
                    !.language = Some(extraction.language),
                    !.tool_results = <<>>]

\* graph.py:40-58, unless the classifier raised
Classified(message, started, extraction, up, menu) ==
    IF extraction.raised # ""
    THEN TurnEnds("classify", message, started, rows, extraction.raised,
                  extraction.asked, <<>>, "idle", "raised")
    ELSE Dispatched(message, extraction.asked,
                    Dispatch(AssignExtraction(started, extraction), up, menu))

\* one iteration of the loop of run_agent (graph.py:34-58)
Turn(reply, up, menu) ==
    /\ pc = "running"
    /\ Classified(Head(frame.messages),
                  [call_state EXCEPT
                     !.last_user_text = Some(Head(frame.messages))],
                  classify_intent_and_entities(
                      Head(frame.messages), call_state.language, frame.llm,
                      TRUE, config, reply),
                  up, menu)
    /\ UNCHANGED <<config, entry, invoked, fnVars, edgeVars>>

\* the replies the turn can get from the model: a hook that is never asked
\* (no llm argument and the remote model gated off) replies nothing
HookReplies ==
    IF frame.llm \/ RemoteEnabled(TRUE, config)
    THEN Replies
    ELSE { NotJsonReply }

Step ==
    \E reply \in HookReplies, up \in BOOLEAN, menu \in MenuAnswers :
        Turn(reply, up, menu)

\* run_agent on a CallState whose history the caller has written
RunQueued(max_turns) ==
    /\ invoked < MaxRuns
    /\ RunAgent(max_turns, FALSE)

Next ==
    \/ \E text \in DriverUtterances : AddHistory(text)
    \/ \E text \in DriverUtterances \cup { <<>> } : Submit(text)
    \/ \E max_turns \in Budgets : RunQueued(max_turns)
    \/ Step

Spec == Init /\ [][Next]_vars

(***************************************************************************)
(* The driver when the caller only submits utterances and calls run_agent. *)
(***************************************************************************)
RunSubmitted(max_turns) ==
    /\ invoked < MaxCalls
    /\ RunAgent(max_turns, FALSE)

NextSubmit ==
    \/ \E text \in DriverUtterances \cup { <<>> } : Submit(text)
    \/ \E max_turns \in Budgets : RunSubmitted(max_turns)
    \/ Step

SpecSubmit == Init /\ [][NextSubmit]_vars

(***************************************************************************)
(* One request, as the handlers of app/main.py and app/twilio/webhooks.py  *)
(* serve it: a fresh CallState that carries the utterance, and one call    *)
(* of run_agent.                                                           *)
(***************************************************************************)
RequestInit ==
    /\ call_state \in { CallState(language, text) :
                          language \in { None, Some("en") },
                          text \in { None } \cup
                                   { Some(t) : t \in Utterances \cup { <<>> } } }
    /\ config \in Configs
    /\ AgentIdle
    /\ EdgeIdle
    /\ FnIdle

RunAgentOnce(max_turns, llm) ==
    /\ invoked = 0
    /\ RunAgent(max_turns, llm)

NextRequest ==
    \/ \E max_turns \in Budgets, llm \in BOOLEAN : RunAgentOnce(max_turns, llm)
    \/ Step

SpecRequest == RequestInit /\ [][NextRequest]_vars

(***************************************************************************)
(* One call of run_agent on a history the caller has written, with         *)
(* utterances of every intent, some of them carrying a field.              *)
(***************************************************************************)
TurnUtterances ==
    { BookTable, BookForTwo, CancelBooking, ChangeBooking, Menu, Menyu,
      Hours, Hello }

NextTurns ==
    \/ \E text \in TurnUtterances : AddHistory(text)
    \/ \E max_turns \in Budgets : RunAgentOnce(max_turns, FALSE)
    \/ Step

SpecTurns == Init /\ [][NextTurns]_vars

(***************************************************************************)
(* The pure functions, applied to every text of Texts.                     *)
(***************************************************************************)
FnInit ==
    /\ call_state = CallState(None, None)
    /\ config = Settings(TRUE, None, TRUE)
    /\ AgentIdle
    /\ EdgeIdle
    /\ fn_text \in Texts
    /\ fn_intent = "None"
    /\ ClassifierIdle

ApplyFallbackIntent ==
    /\ fn_intent = "None"
    /\ fn_intent' = _fallback_intent(fn_text)
    /\ UNCHANGED <<fn_text, fn_args, fn_classified, fn_extracted, agentVars, edgeVars>>

FnNext == ApplyFallbackIntent

SpecFn == FnInit /\ [][FnNext]_vars

(***************************************************************************)
(* The classifier, applied to every utterance of the model with every      *)
(* language hint, with and without a model hook, under every setting and   *)
(* for every reply of the model.                                           *)
(***************************************************************************)
ClassifierArgs ==
    [text : Utterances, language : LanguageHints, llm : BOOLEAN,
     use_llm_fallback : BOOLEAN, config : Configs, reply : Replies]

ClassifierInit ==
    /\ call_state = CallState(None, None)
    /\ config = Settings(TRUE, None, TRUE)
    /\ AgentIdle
    /\ EdgeIdle
    /\ fn_text = <<>>
    /\ fn_intent = "None"
    /\ fn_args \in { Some(args) : args \in ClassifierArgs }
    /\ fn_classified = None
    /\ fn_extracted = None

\* both functions are applied to the arguments
ApplyClassify ==
    /\ fn_args # None
    /\ fn_classified = None
    /\ fn_classified' =
           Some(classify_intent_and_entities(
                    fn_args[1].text, fn_args[1].language, fn_args[1].llm,
                    fn_args[1].use_llm_fallback, fn_args[1].config,
                    fn_args[1].reply))
    /\ fn_extracted' = Some(RegexFallback(fn_args[1].text, fn_args[1].language))
    /\ UNCHANGED <<fn_text, fn_intent, fn_args, agentVars, edgeVars>>

ClassifierNext == ApplyClassify

SpecClassifier == ClassifierInit /\ [][ClassifierNext]_vars

(***************************************************************************)
(* A call through retryable(service) (retry.py:42-52): tenacity calls the  *)
(* function, returns its value, re-raises what the predicate does not      *)
(* retry, re-raises the last exception when the stop condition holds       *)
(* (reraise=True), and otherwise logs, sleeps and calls again.             *)
(***************************************************************************)
RetryInit ==
    /\ call_state = CallState(None, None)
    /\ config = Settings(TRUE, None, TRUE)
    /\ AgentIdle
    /\ FnIdle
    /\ WebIdle
    /\ retry \in { RetryState("calling", 1, limit, <<>>) :
                      limit \in 1..RetryMaxAttempts }

\* one attempt of the wrapped function and tenacity's decision on it
Attempt(result) ==
    /\ retry.pc = "calling"
    /\ retry' =
         [retry EXCEPT
            !.attempts = Append(@, result),
            !.pc = IF result.raised = None THEN "returned"
                   ELSE IF ~_is_retryable_exception(result.raised[1])
                   THEN "raised"
                   ELSE IF stop_after_attempt(retry.max_attempts,
                                              retry.attempt_number)
                   THEN "raised"
                   ELSE "sleeping"]
    /\ UNCHANGED <<agentVars, fnVars, web, turns>>

\* the wait is over: the next attempt
Wake ==
    /\ retry.pc = "sleeping"
    /\ retry' = [retry EXCEPT !.pc = "calling",
                              !.attempt_number = @ + 1]
    /\ UNCHANGED <<agentVars, fnVars, web, turns>>

RetryNext ==
    \/ \E result \in AttemptOutcomes : Attempt(result)
    \/ Wake

SpecRetry == RetryInit /\ [][RetryNext]_vars

(***************************************************************************)
(* The application serving Twilio requests.  A request is received, routed *)
(* and taken through the head of its handler in one step (nothing there    *)
(* leaves the process); every collaborator call after that is a step of    *)
(* its own, so that the requests of several server processes interleave at *)
(* the agent run, the conversation store and the text-to-speech call.      *)
(***************************************************************************)
\* what run_agent gives for the CallState of webhooks.py:150-154, one
\* utterance and no history, so one iteration of the loop (graph.py:34-58)
AgentResult(raised, state, store, calls) ==
    [raised |-> raised, final_answer |-> state.final_answer, rows |-> store,
     calls |-> calls]

AgentAnswered(dispatch) ==
    IF dispatch.raised # ""
    THEN AgentResult(dispatch.raised, dispatch.state, dispatch.rows,
                     dispatch.calls)
    ELSE AgentResult("", Answer(respond(dispatch.state)), dispatch.rows,
                     dispatch.calls)

AgentClassified(started, extraction, up, menu) ==
    IF extraction.raised # ""
    THEN AgentResult(extraction.raised, started, rows, <<>>)
    ELSE AgentAnswered(Dispatch(AssignExtraction(started, extraction),
                                up, menu))

run_agent(state, up, menu) ==
    AgentClassified(_ensure_history(state),
                    classify_intent_and_entities(
                        state.last_user_text[1], state.language, FALSE, TRUE,
                        config, NotJsonReply),
                    up, menu)

\* the names of the collaborator calls a dispatcher made
Ops(calls) == [i \in DOMAIN calls |-> calls[i].op]

\* what the requests are made of
CallIds == { "CA1", "CA2" }

WebSpeech == { BookTable, Menu, CancelOne }

\* the signature header and whether the auth token is set: without the
\* token even the right signature is refused
Credentials ==
    { [signature |-> "missing", auth_token |-> TRUE],
      [signature |-> "invalid", auth_token |-> TRUE],
      [signature |-> "valid", auth_token |-> TRUE],
      [signature |-> "valid", auth_token |-> FALSE] }

WebRequests ==
    { WebRequest(VoicePath, call_id, by.signature, by.auth_token, limited,
                 valid, speech, "in-progress") :
        call_id \in CallIds, by \in Credentials, limited \in BOOLEAN,
        valid \in BOOLEAN, speech \in WebSpeech \cup { <<>> } }
    \cup
    { WebRequest(path, "CA1", by.signature, by.auth_token, limited, valid,
                 <<>>, status) :
        path \in { IncomingPath, StatusPath, RecordingPath },
        by \in Credentials, limited \in BOOLEAN, valid \in BOOLEAN,
        status \in { "in-progress", "completed" } }

WebInit ==
    /\ call_state = CallState(None, None)
    /\ config \in DriverConfigs
    /\ AgentIdle
    /\ FnIdle
    /\ EdgeIdle

notWeb ==
    <<call_state, config, pc, frame, entry, turn_log, outcome, invoked,
      fnVars, retry>>

\* a request arrives and runs up to its first collaborator call
Receive(r, request) ==
    /\ web[r].pc = "none"
    /\ r = "second" => web["first"].pc # "none"
    /\ web' = [web EXCEPT ![r] = App(request)]
    /\ UNCHANGED <<rows, turns, notWeb>>

\* run_agent returned or raised (webhooks.py:150-155)
AgentRan(r, result) ==
    /\ web' = [web EXCEPT ![r] =
                 IF result.raised # ""
                 THEN Fails([@ EXCEPT !.effects = @ \o Ops(result.calls)],
                            "run_agent", result.raised)
                 ELSE [@ EXCEPT !.pc = "turn_id",
                                !.final_answer = result.final_answer,
                                !.effects = Append(@ \o Ops(result.calls),
                                                   "run_agent")]]
    /\ rows' = result.rows

RunAgentInHandler(r) ==
    /\ web[r].pc = "agent"
    /\ \E up \in BOOLEAN, menu \in MenuAnswers :
          AgentRan(r, run_agent(CallState(Some("en"),
                                          Some(web[r].request[1].speech)),
                                up, menu))
    /\ UNCHANGED <<turns, notWeb>>

\* store.next_turn_id (webhooks.py:158); ok is whether the database answers
NextTurnId(r) ==
    /\ web[r].pc = "turn_id"
    /\ \E ok \in BOOLEAN :
          web' = [web EXCEPT ![r] =
                    IF ~ok
                    THEN Fails(@, "next_turn_id", "OperationalError")
                    ELSE [@ EXCEPT
                            !.pc = "create_turn",
                            !.turn_id = Some(next_turn_id(
                                            turns, web[r].request[1].call_id)),
                            !.effects = Append(@, "next_turn_id")]]
    /\ UNCHANGED <<rows, turns, notWeb>>

\* the row is in the table, or the INSERT raised
TurnCreated(r, created) ==
    /\ web' = [web EXCEPT ![r] =
                 IF created.raised # ""
                 THEN Fails(@, "create_turn", created.raised)
                 ELSE [@ EXCEPT !.pc = "tts",
                                !.effects = Append(@, "create_turn")]]
    /\ turns' = created.table

\* store.create_turn with the turn id read before (webhooks.py:161-171)
CreateTurn(r) ==
    /\ web[r].pc = "create_turn"
    /\ \E ok \in BOOLEAN :
          IF ~ok
          THEN /\ web' = [web EXCEPT ![r] =
                            Fails(@, "create_turn", "OperationalError")]
               /\ turns' = turns
          ELSE TurnCreated(r, create_turn(turns, web[r].request[1].call_id,
                                          web[r].turn_id[1], r))
    /\ UNCHANGED <<rows, notWeb>>

\* tts_to_file and the reply (webhooks.py:188-222)
Speak(r) ==
    /\ web[r].pc = "tts"
    /\ \E ok \in BOOLEAN :
          web' = [web EXCEPT ![r] =
                    IF ~ok
                    THEN Fails(@, "tts_to_file", "ExternalAPIError")
                    ELSE [@ EXCEPT
                            !.pc = "done",
                            !.effects = Append(@, "tts_to_file"),
                            !.response =
                                Some(Response(200, "application/xml",
                                         VoiceTwiml(web[r].final_answer)))]]
    /\ UNCHANGED <<rows, turns, notWeb>>

\* the one store write of the other handlers: update_call_session
\* (webhooks.py:70-75, 252-256) or save_recording (webhooks.py:293-300)
StoreWrite(r) ==
    /\ web[r].pc = "store"
    /\ \E ok \in BOOLEAN :
          web' = [web EXCEPT ![r] =
                    IF ~ok
                    THEN Fails(@, "store_write", "OperationalError")
                    ELSE [@ EXCEPT
                            !.pc = "done",
                            !.effects = Append(@, "store_write"),
                            !.response =
                                Some(Response(200, "application/xml",
                                    IF web[r].request[1].path = IncomingPath
                                    THEN create_twiml_response(
                                             None, None,
                                             Some(Gather(Some("greeting"),
                                                         None)),
                                             FALSE)
                                    ELSE create_twiml_response(
                                             None, None, None, FALSE)))]]
    /\ UNCHANGED <<rows, turns, notWeb>>

WebNext ==
    \/ \E r \in RequestIds, request \in WebRequests : Receive(r, request)
    \/ \E r \in RequestIds : RunAgentInHandler(r)
    \/ \E r \in RequestIds : NextTurnId(r)
    \/ \E r \in RequestIds : CreateTurn(r)
    \/ \E r \in RequestIds : Speak(r)
    \/ \E r \in RequestIds : StoreWrite(r)

SpecWebhook == WebInit /\ [][WebNext]_vars

(***************************************************************************)
(* What the properties below speak of.                                     *)
(***************************************************************************)
\* the turn went through classification, dispatch and reply
Completed(turn) == turn.stage = "reply"

\* the turn's reply asks for clarification
Clarifies(turn) ==
    /\ Completed(turn)
    /\ "clarify" \in Range(turn.reply[1].actions)

AllClarify == \A i \in DOMAIN turn_log : Clarifies(turn_log[i])

\* the utterances the turns of this call took up, in the order of the turns
Processed == [i \in DOMAIN turn_log |-> turn_log[i].text]

\* the last k elements of a sequence
LastOf(seq, k) == SubSeq(seq, Len(seq) - k + 1, Len(seq))

\* the user utterances the history holds once the call has begun
Queued == UserTexts(call_state.history)

\* what this call has appended to the history it was given
Appended ==
    SubSeq(call_state.history, Len(entry.state.history) + 1,
           Len(call_state.history))

RepliesAppended ==
    Len(SelectSeq(Appended, LAMBDA msg : msg.role = "assistant"))

Returned == pc = "idle" /\ outcome = "returned"

(***************************************************************************)
(* C1.  A call of run_agent with the budget N >= 1 on a history of M user  *)
(* utterances that all get a clarify reply takes up exactly the last       *)
(* min(N, M) utterances, oldest first, and appends exactly min(N, M)       *)
(* assistant replies.                                                      *)
(***************************************************************************)
C1_LastMinWindow ==
    (Returned /\ entry.max_turns # None /\ AllClarify) =>
        LET k == Min({ entry.max_turns[1], Len(Queued) })
        IN  /\ Processed = LastOf(Queued, k)
            /\ RepliesAppended = k

\* budget 2 and three different queued utterances: the last two are answered
C1_Witness ==
    /\ Returned
    /\ AllClarify
    /\ entry.max_turns = Some(2)
    /\ Len(Queued) = 3
    /\ Queued[1] # Queued[2]
    /\ Len(turn_log) = 2
    /\ RepliesAppended = 2

(***************************************************************************)
(* C2.  Within a call of run_agent the turns are a prefix of the window;   *)
(* every turn but the last one ends with a clarify reply, so nothing is    *)
(* taken up after a definitive reply; the replies appended are as many as  *)
(* the turns completed, which is the position of the first definitive      *)
(* reply, or the size of the window when every reply clarifies; and the    *)
(* turns are never more than the budget.                                   *)
(***************************************************************************)
C2_StopsAtFirstDefinitive ==
    (outcome \in { "running", "returned", "raised" }) =>
        LET budget == IF entry.max_turns = None THEN DefaultMaxTurns
                      ELSE entry.max_turns[1]
            window == LastOf(Queued, Min({ budget, Len(Queued) }))
            n == Len(turn_log)
        IN  /\ n <= budget
            /\ n <= Len(window)
            /\ Processed = SubSeq(window, 1, n)
            /\ \A i \in 1..(n - 1) : Clarifies(turn_log[i])
            /\ RepliesAppended =
                 Cardinality({ i \in 1..n : Completed(turn_log[i]) })
            /\ (outcome = "returned" /\ n > 0) =>
                   /\ Completed(turn_log[n])
                   /\ Clarifies(turn_log[n]) => n = Len(window)
            /\ (outcome = "running") =>
                   /\ n < Len(window)
                   /\ n > 0 => Clarifies(turn_log[n])

\* three utterances in the window, the second one gets a definitive reply,
\* the third one is never taken up
C2_Witness ==
    /\ Returned
    /\ entry.max_turns = Some(3)
    /\ Len(Queued) = 3
    /\ Len(turn_log) = 2
    /\ Clarifies(turn_log[1])
    /\ Completed(turn_log[2])
    /\ ~Clarifies(turn_log[2])
    /\ RepliesAppended = 2

(***************************************************************************)
(* C3.  A call of run_agent without a budget has settings.max_turns as its *)
(* budget: on M user utterances that all get a clarify reply it appends    *)
(* exactly min(M, settings.max_turns) assistant replies.                   *)
(***************************************************************************)
C3_BudgetFromSettings ==
    (Returned /\ entry.max_turns = None /\ AllClarify) =>
        RepliesAppended = Min({ Len(Queued), config.max_turns })

(***************************************************************************)
(* C4.  On entry to run_agent with a non-empty last_user_text u, u is      *)
(* appended to the history as a user entry exactly when u is not the text  *)
(* of the most recent user entry.                                          *)
(***************************************************************************)
C4_AppendedUnlessMostRecent ==
    (outcome # "none" /\ TruthyStr(entry.state.last_user_text)) =>
        LET u == entry.state.last_user_text[1]
            before == UserTexts(entry.state.history)
            appended ==
                /\ Appended # <<>>
                /\ Appended[1] = HistoryMessage("user", u)
        IN  appended <=> (before = <<>> \/ before[Len(before)] # u)

(***************************************************************************)
(* C5.  From an empty history, whatever utterances are submitted and       *)
(* however often run_agent is called, no two user entries that follow one  *)
(* another among the user entries of the history have the same text.       *)
(***************************************************************************)
C5_NoConsecutiveDuplicate ==
    \A i \in 1..(Len(Queued) - 1) : Queued[i] # Queued[i + 1]

\* the utterance of the most recent user entry was submitted again and
\* run_agent, called a second time, did not append it
C5_Witness ==
    /\ outcome # "none"
    /\ invoked >= 2
    /\ TruthyStr(entry.state.last_user_text)
    /\ UserTexts(entry.state.history) # <<>>
    /\ UserTexts(entry.state.history)[Len(UserTexts(entry.state.history))]
         = entry.state.last_user_text[1]
    /\ Queued = UserTexts(entry.state.history)

(***************************************************************************)
(* C6.  When last_user_text is null or empty and the history has no user   *)
(* entry, run_agent returns the CallState with every field as it was,      *)
(* after no turn at all, and final_answer is not set.                      *)
(***************************************************************************)
C6_NoUtteranceNoChange ==
    ( /\ outcome # "none"
      /\ ~TruthyStr(entry.state.last_user_text)
      /\ UserTexts(entry.state.history) = <<>> ) =>
        /\ Returned
        /\ call_state = entry.state
        /\ turn_log = <<>>
        /\ call_state.final_answer = None

\* run_agent has returned from a call with the empty string as utterance
C6_Witness ==
    /\ Returned
    /\ invoked = 1
    /\ entry.state.last_user_text = Some(<<>>)
    /\ entry.state.history = <<>>
    /\ call_state = entry.state

(***************************************************************************)
(* The reservation turns.                                                  *)
(***************************************************************************)
ReservationIntents ==
    { Some("create_reservation"), Some("update_reservation"),
      Some("cancel_reservation") }

\* the turn got as far as the dispatcher
ReachedDispatch(turn) == turn.stage \in { "dispatch", "reply" }

EntitiesOf(turn) ==
    IF turn.entities = None THEN EmptyRequest ELSE turn.entities[1]

\* the calls of the store operation op made in the turn
StoreCalls(turn, op) == SelectSeq(turn.calls, LAMBDA call : call.op = op)

ConfirmationKey(intent) ==
    IF intent = Some("create_reservation") THEN "created"
    ELSE IF intent = Some("update_reservation") THEN "updated"
    ELSE "cancelled"

\* the reply of the turn is the confirmation phrase of its intent
Confirms(turn) ==
    turn.reply[1].answer_text =
        Prompt(turn.reply[1].language, ConfirmationKey(turn.intent))

(***************************************************************************)
(* C7.  In a create_reservation turn the store's create operation is      *)
(* called only if name, datetime and people are all there; when one of     *)
(* them is null nothing is created and the turn records exactly one        *)
(* ToolResult, of crm_create, with an empty payload and the error          *)
(* missing_required_fields.                                                *)
(***************************************************************************)
C7_CreateOnlyWithAllFields ==
    \A i \in DOMAIN turn_log :
        LET turn == turn_log[i]
            entities == EntitiesOf(turn)
            creates == StoreCalls(turn, "create_reservation")
            missing == \/ entities.name = None
                       \/ entities.datetime = None
                       \/ entities.people = None
        IN  ( /\ ReachedDispatch(turn)
              /\ turn.intent = Some("create_reservation") ) =>
                /\ creates # <<>> => ~missing
                /\ missing =>
                     /\ creates = <<>>
                     /\ turn.tool_results =
                          << ToolResult("crm_create", <<>>,
                                        Some("missing_required_fields")) >>

(***************************************************************************)
(* C8.  In a completed update_reservation or cancel_reservation turn: with *)
(* no reservation id the store operation is not called and the turn        *)
(* records exactly one ToolResult with an empty payload and the error      *)
(* missing_reservation_id; with a reservation id the store operation of    *)
(* the intent is called exactly once, with that id, and the record it      *)
(* returns is the payload of the one ToolResult, which has no error.       *)
(***************************************************************************)
C8_ReservationIdDecides ==
    \A i \in DOMAIN turn_log :
        LET turn == turn_log[i]
            entities == EntitiesOf(turn)
            calls == StoreCalls(turn, turn.intent[1])
        IN  ( /\ Completed(turn)
              /\ turn.intent \in { Some("update_reservation"),
                                   Some("cancel_reservation") } ) =>
                /\ Len(turn.tool_results) = 1
                /\ IF entities.reservation_id = None
                   THEN /\ calls = <<>>
                        /\ turn.tool_results[1].payload = <<>>
                        /\ turn.tool_results[1].error =
                             Some("missing_reservation_id")
                   ELSE /\ calls = << StoreCall(turn.intent[1],
                                                entities.reservation_id) >>
                        /\ turn.tool_results[1].error = None
                        /\ turn.tool_results[1].payload # <<>>
                        /\ turn.tool_results[1].payload[1].reservation_id =
                             entities.reservation_id[1]

(***************************************************************************)
(* C9.  In every completed turn of a reservation intent the reply carries  *)
(* clarify exactly when the turn's ToolResult has an error, which is       *)
(* missing_required_fields or missing_reservation_id; and the reply is the *)
(* created, updated or cancelled phrase exactly when the store operation   *)
(* of the intent was called once in the turn and returned a record.        *)
(***************************************************************************)
C9_ClarifyIffToolError ==
    \A i \in DOMAIN turn_log :
        LET turn == turn_log[i]
            calls == StoreCalls(turn, turn.intent[1])
        IN  (Completed(turn) /\ turn.intent \in ReservationIntents) =>
                /\ Len(turn.tool_results) = 1
                /\ Clarifies(turn) <=> turn.tool_results[1].error # None
                /\ turn.tool_results[1].error \in
                     { None, Some("missing_required_fields"),
                       Some("missing_reservation_id") }
                /\ Confirms(turn) <=>
                     /\ Len(calls) = 1
                     /\ turn.tool_results[1].error = None
                     /\ turn.tool_results[1].payload # <<>>
                /\ Confirms(turn) <=> ~Clarifies(turn)

\* a completed create turn that called the store once and confirms
C9_Witness ==
    \E i \in DOMAIN turn_log :
        /\ Completed(turn_log[i])
        /\ turn_log[i].intent = Some("create_reservation")
        /\ Len(StoreCalls(turn_log[i], "create_reservation")) = 1
        /\ Confirms(turn_log[i])
        /\ ~Clarifies(turn_log[i])

(***************************************************************************)
(* C10.  _fallback_intent returns the intent of the first of the buckets   *)
(* cancel, update, create, menu, hours that has a keyword in the           *)
(* lower-cased utterance, and generic when none has; an utterance with a   *)
(* cancellation keyword and a booking keyword is cancel_reservation.       *)
(***************************************************************************)
Buckets ==
    << [words |-> CancelWords, intent |-> "cancel_reservation"],
       [words |-> UpdateWords, intent |-> "update_reservation"],
       [words |-> CreateWords, intent |-> "create_reservation"],
       [words |-> MenuWords, intent |-> "menu_question"],
       [words |-> HoursWords, intent |-> "hours_info"] >>

\* the buckets that have a keyword in the lower-cased text
Hits(text) ==
    { b \in DOMAIN Buckets : SearchAny(lower(text), Buckets[b].words) }

C10_FirstBucketWins ==
    (fn_intent # "None") =>
        /\ fn_intent = IF Hits(fn_text) = {} THEN "generic"
                       ELSE Buckets[Min(Hits(fn_text))].intent
        /\ {1, 3} \subseteq Hits(fn_text) => fn_intent = "cancel_reservation"

\* an utterance in capitals with a cancellation and a booking keyword
C10_Witness ==
    /\ fn_intent = "cancel_reservation"
    /\ {1, 3} \subseteq Hits(fn_text)
    /\ fn_text # lower(fn_text)

(***************************************************************************)
(* Claims about the classifier.                                            *)
(***************************************************************************)
\* both functions have been applied to fn_args
Applied == fn_args # None /\ fn_classified # None /\ fn_extracted # None

\* two results of extraction are the same outcome
SameExtraction(a, b) ==
    /\ a.raised = b.raised
    /\ a.intent = b.intent
    /\ a.entities = b.entities
    /\ a.language = b.language

\* C11: when a model hook is supplied and its reply is not JSON or is JSON
\* outside the {intent, entities, language} schema,
\* classify_intent_and_entities ends exactly as _regex_fallback_extract does
\* for the same text and language hint: no JSONDecodeError reaches the
\* caller, and the classifier returns whenever the fallback returns.
C11_MalformedHookReplyFallsBack ==
    (Applied /\ fn_args[1].llm /\ fn_args[1].reply \in MalformedReplies)
    => /\ SameExtraction(fn_classified[1], fn_extracted[1])
       /\ fn_classified[1].raised # "JSONDecodeError"
       /\ (fn_extracted[1].raised = "" => fn_classified[1].raised = "")

C11_Witness ==
    /\ Applied
    /\ fn_args[1].llm
    /\ fn_args[1].reply = ZeroPeopleReply
    /\ fn_args[1].text = CancelOne
    /\ fn_args[1].language = Some("de")
    /\ fn_classified[1].raised = ""
    /\ fn_classified[1].intent = "cancel_reservation"
    /\ fn_classified[1].entities =
          Some([EmptyRequest EXCEPT !.people = Some(1),
                                    !.reservation_id = Some(1)])
    /\ fn_classified[1].language = "de"

\* the remote model was asked in the classification applied
RemoteAsked ==
    \E i \in DOMAIN fn_classified[1].asked :
        fn_classified[1].asked[i] = ModelCall("chat_completion")

\* C12: without a model hook the remote model is called exactly when
\* use_llm_fallback, llm_intent_enabled and a credential all hold, and no
\* hook is ever called; when the remote call raises or its reply does not
\* parse, the classifier ends exactly as _regex_fallback_extract does for
\* the same text and language hint.
C12_RemoteGatedAndGuarded ==
    (Applied /\ ~fn_args[1].llm)
    => /\ RemoteAsked <=> ( /\ fn_args[1].use_llm_fallback
                            /\ fn_args[1].config.llm_intent_enabled
                            /\ TruthyStr(fn_args[1].config.openai_api_key) )
       /\ Len(fn_classified[1].asked) = IF RemoteAsked THEN 1 ELSE 0
       /\ ( \/ ~RemoteAsked
            \/ fn_args[1].reply.raises
            \/ fn_args[1].reply \in MalformedReplies )
          => SameExtraction(fn_classified[1], fn_extracted[1])
       /\ fn_classified[1].raised \notin { "ExternalAPIError", "JSONDecodeError" }
       /\ (fn_extracted[1].raised = "" => fn_classified[1].raised = "")

C12_Witness ==
    /\ Applied
    /\ ~fn_args[1].llm
    /\ fn_args[1].use_llm_fallback
    /\ fn_args[1].config = Settings(TRUE, Some("sk-test"), TRUE)
    /\ fn_args[1].reply = RaisingReply
    /\ fn_args[1].text = CancelBooking
    /\ fn_args[1].language = None
    /\ fn_classified[1].asked = <<ModelCall("chat_completion")>>
    /\ fn_classified[1].raised = ""
    /\ fn_classified[1].intent = "cancel_reservation"
    /\ fn_classified[1].entities = None

\* C13: a turn never ends in the classifier with an exception unless
\* _regex_fallback_extract itself raises for the turn's text and language
\* hint: a failure of the model hook or of the remote model does not
\* surface to the driver.
C13_ModelFailureNeverSurfaces ==
    \A i \in DOMAIN turn_log :
        (turn_log[i].stage = "classify" /\ turn_log[i].raised # "")
        => RegexFallback(turn_log[i].text, turn_log[i].hint).raised # ""

\* C14: _regex_fallback_extract returns an IntentExtraction for every text
\* and never raises; a date that is not a calendar date and a party size
\* of 0 are reported as absent.
C14_FallbackNeverRaises ==
    fn_extracted # None
    => /\ fn_extracted[1].raised = ""
       /\ fn_args[1].text = InvalidDate
          => /\ fn_extracted[1].entities # None
             /\ fn_extracted[1].entities[1].datetime = None
       /\ fn_args[1].text = TableForZero
          => fn_extracted[1].entities = None

(***************************************************************************)
(* Claims about what a turn leaves in the CallState.                       *)
(***************************************************************************)
FieldNames == { "name", "datetime", "people", "reservation_id" }

\* C15: after every turn CallState.entities is null exactly when name,
\* datetime, party size and reservation id are all absent: an entities
\* object whose four fields are all null is never stored, whichever path
\* of the classifier produced it.
C15_EntitiesNullIffNoField ==
    \A i \in DOMAIN turn_log :
        ReachedDispatch(turn_log[i])
        => ( turn_log[i].entities = None
             <=> \A f \in FieldNames : EntitiesOf(turn_log[i])[f] = None )

\* C16: after every turn that the deterministic classifier alone
\* classified (no model hook, no remote model), CallState.language is the
\* language detect_language finds in the turn's utterance, whatever
\* language the state carried before.
C16_LanguageFollowsUtterance ==
    \A i \in DOMAIN turn_log :
        (ReachedDispatch(turn_log[i]) /\ turn_log[i].asked = <<>>)
        => turn_log[i].language = Some(detect_language(turn_log[i].text))

\* what a turn derived and did: intent, entities, language, tool dispatch
\* and reply
Derived(turn) ==
    <<turn.intent, turn.entities, turn.language, turn.tool_results,
      turn.calls, turn.reply>>

\* C17: a turn derives intent and entities from its own utterance and the
\* language hint alone: two completed turns of a call that take up the
\* same text with the same hint, whatever intent, entities, tool_results
\* and final_answer the turns before them left in the CallState, give the
\* same intent, entities, tool dispatch and reply.
C17_TurnDependsOnUtteranceOnly ==
    \A i \in DOMAIN turn_log : \A j \in DOMAIN turn_log :
        ( /\ Completed(turn_log[i])
          /\ Completed(turn_log[j])
          /\ turn_log[i].text = turn_log[j].text
          /\ turn_log[i].hint = turn_log[j].hint )
        => Derived(turn_log[i]) = Derived(turn_log[j])

C17_Witness ==
    /\ Len(turn_log) = 3
    /\ AllClarify
    /\ Processed = <<BookTable, BookForTwo, BookTable>>
    /\ entry.state.intent = None
    /\ turn_log[1].hint = Some("en")
    /\ turn_log[3].hint = Some("en")
    /\ turn_log[2].entities = Some([EmptyRequest EXCEPT !.people = Some(2)])
    /\ turn_log[2].tool_results # <<>>
    /\ turn_log[3].entities = None
    /\ turn_log[3].intent = Some("create_reservation")

\* the tool whose result a turn of the intent records, if any
ToolOf(intent) ==
    IF intent = "create_reservation" THEN Some("crm_create")
    ELSE IF intent = "update_reservation" THEN Some("crm_update")
    ELSE IF intent = "cancel_reservation" THEN Some("crm_cancel")
    ELSE IF intent = "menu_question" THEN Some("menu_context")
    ELSE None

\* C18: at the end of every completed turn tool_results holds exactly one
\* ToolResult, of the tool of the turn's intent, when the intent is
\* create/update/cancel_reservation or menu_question, and is empty for
\* hours_info and generic: the results of earlier turns are gone.
C18_ToolResultsOfThisTurnOnly ==
    \A i \in DOMAIN turn_log :
        Completed(turn_log[i])
        => IF ToolOf(turn_log[i].intent[1]) = None
           THEN turn_log[i].tool_results = <<>>
           ELSE /\ Len(turn_log[i].tool_results) = 1
                /\ Some(turn_log[i].tool_results[1].tool)
                     = ToolOf(turn_log[i].intent[1])

C18_Witness ==
    /\ Returned
    /\ Processed = <<BookForTwo, ChangeBooking, Hours>>
    /\ turn_log[1].tool_results[1].tool = "crm_create"
    /\ turn_log[2].tool_results[1].tool = "crm_update"
    /\ turn_log[3].intent = Some("hours_info")
    /\ turn_log[3].tool_results = <<>>
    /\ call_state.tool_results = <<>>

(***************************************************************************)
(* Claims about the menu lookup and the composed reply.                    *)
(***************************************************************************)
\* the items the turn's menu lookup returned
MenuItems(turn) == turn.tool_results[1].payload[1].items

\* C19: every menu_question turn calls the menu lookup exactly once, with
\* the text of the utterance the turn takes up and the turn's language;
\* when the lookup returns, one menu_context ToolResult without error is
\* recorded, and when no item with a name came back the reply is the
\* 'menu_empty' phrase of the language, with no clarify action.
C19_MenuLookupOncePerTurn ==
    \A i \in DOMAIN turn_log :
        ( /\ ReachedDispatch(turn_log[i])
          /\ turn_log[i].intent = Some("menu_question") )
        => /\ turn_log[i].calls =
                <<MenuCall(turn_log[i].text, turn_log[i].language[1])>>
           /\ Completed(turn_log[i])
              => /\ Len(turn_log[i].tool_results) = 1
                 /\ turn_log[i].tool_results[1].tool = "menu_context"
                 /\ turn_log[i].tool_results[1].error = None
                 /\ turn_log[i].reply[1].language = turn_log[i].language[1]
                 /\ turn_log[i].reply[1].answer_text # <<>>
                 /\ (\A k \in DOMAIN MenuItems(turn_log[i]) :
                        ~TruthyStr(MenuItems(turn_log[i])[k].name))
                    => /\ turn_log[i].reply[1].answer_text =
                            Prompt(turn_log[i].language[1], "menu_empty")
                       /\ turn_log[i].reply[1].actions = <<>>

C19_Witness ==
    /\ Returned
    /\ Queued = <<Menyu, BookTable>>
    /\ Processed = <<Menyu>>
    /\ turn_log[1].calls = <<MenuCall(Menyu, "ru")>>
    /\ MenuItems(turn_log[1]) = << [name |-> None, price |-> Some("3")] >>
    /\ turn_log[1].reply =
          Some(AgentResponse(<<"ru:menu_empty">>, <<>>, "ru"))

\* the field is absent from the turn's entities, or empty
FieldMissing(turn, field) ==
    IF field = "name" THEN ~TruthyStr(EntitiesOf(turn).name)
    ELSE IF field = "datetime" THEN ~TruthyObj(EntitiesOf(turn).datetime)
    ELSE ~TruthyInt(EntitiesOf(turn).people)

\* the fields a create_reservation turn lacks, in the order of the reply
MissingOf(turn) ==
    SelectSeq(<<"name", "datetime", "people">>,
              LAMBDA field : FieldMissing(turn, field))

\* C20: the reply of a create_reservation turn is the clarifying questions
\* of its missing fields among name, datetime, party size, one each, in
\* this order and joined by a space, with actions ["clarify"]; with only
\* the party size missing it is the 'missing_people' phrase; with none
\* missing it is the 'created' phrase with no action.
C20_OneQuestionPerMissingField ==
    \A i \in DOMAIN turn_log :
        ( /\ Completed(turn_log[i])
          /\ turn_log[i].intent = Some("create_reservation") )
        => /\ MissingOf(turn_log[i]) # <<>>
              => /\ turn_log[i].reply[1].answer_text =
                      Join(Chars(" "),
                           [k \in DOMAIN MissingOf(turn_log[i]) |->
                              Prompt(turn_log[i].reply[1].language,
                                     "missing_" \o MissingOf(turn_log[i])[k])])
                 /\ turn_log[i].reply[1].actions = <<"clarify">>
           /\ MissingOf(turn_log[i]) = <<"people">>
              => turn_log[i].reply[1].answer_text =
                   Prompt(turn_log[i].reply[1].language, "missing_people")
           /\ MissingOf(turn_log[i]) = <<>>
              => /\ turn_log[i].reply[1].answer_text =
                      Prompt(turn_log[i].reply[1].language, "created")
                 /\ turn_log[i].reply[1].actions = <<>>

C20_Witness ==
    /\ Returned
    /\ entry.llm
    /\ Processed = <<BookFull>>
    /\ turn_log[1].intent = Some("create_reservation")
    /\ turn_log[1].entities = Some([AlRequest EXCEPT !.people = None])
    /\ turn_log[1].reply =
          Some(AgentResponse(<<"en:missing_people">>, <<"clarify">>, "en"))

\* C21: final_answer.actions is always empty or exactly ["clarify"]; a
\* composed reply carries clarify only when the turn's intent is
\* create/update/cancel_reservation, and a completed turn of another intent
\* is the last turn of its call.
C21_ClarifyOnlyForReservations ==
    /\ call_state.final_answer # None
       => call_state.final_answer[1].actions \in { <<>>, <<"clarify">> }
    /\ \A i \in DOMAIN turn_log :
          Completed(turn_log[i])
          => /\ turn_log[i].reply[1].actions \in { <<>>, <<"clarify">> }
             /\ Clarifies(turn_log[i])
                => turn_log[i].intent \in ReservationIntents
             /\ turn_log[i].intent \notin ReservationIntents
                => (i = Len(turn_log) /\ pc = "idle")

C21_Witness ==
    /\ Returned
    /\ Queued = <<BookTable, Hello, BookTable>>
    /\ entry.max_turns = Some(3)
    /\ Processed = <<BookTable, Hello>>
    /\ Clarifies(turn_log[1])
    /\ turn_log[2].intent = Some("generic")
    /\ turn_log[2].reply[1].actions = <<>>

\* what the CallState held when turn i of the call began: the state
\* run_agent was entered with (history ensured), or what turn i - 1 left
TurnStart(i) ==
    IF i = 1
    THEN [ last_user_text |-> _ensure_history(entry.state).last_user_text,
           intent |-> entry.state.intent,
           entities |-> entry.state.entities,
           language |-> entry.state.language,
           tool_results |-> entry.state.tool_results,
           final_answer |-> entry.state.final_answer ]
    ELSE [ last_user_text |-> Some(turn_log[i - 1].text),
           intent |-> turn_log[i - 1].intent,
           entities |-> turn_log[i - 1].entities,
           language |-> turn_log[i - 1].language,
           tool_results |-> turn_log[i - 1].tool_results,
           final_answer |-> turn_log[i - 1].reply ]

\* run_agent raised out of the dispatcher of its last turn
RaisedInDispatch ==
    /\ pc = "idle"
    /\ outcome = "raised"
    /\ turn_log # <<>>
    /\ turn_log[Len(turn_log)].stage = "dispatch"

(***************************************************************************)
(* C23.  When the reservation store or the menu search raises during a     *)
(* turn of run_agent, the exception propagates and the CallState shows     *)
(* none of that turn's effects: last_user_text, intent, entities,          *)
(* language, tool_results and final_answer equal their values from before  *)
(* the turn began, and the history is the one the call started with plus   *)
(* the replies of the turns before.                                        *)
(***************************************************************************)
C23_FailedTurnIsAtomic ==
    RaisedInDispatch =>
        /\ [ last_user_text |-> call_state.last_user_text,
             intent |-> call_state.intent,
             entities |-> call_state.entities,
             language |-> call_state.language,
             tool_results |-> call_state.tool_results,
             final_answer |-> call_state.final_answer ]
           = TurnStart(Len(turn_log))
        /\ Len(turn_log) = 1
           => call_state.history = _ensure_history(entry.state).history

\* the history run_agent started its loop with, and its user utterances
EntryHistory == _ensure_history(entry.state).history

\* how many user utterances of a history have an assistant reply after them
AnsweredUsers(history) ==
    Cardinality({ i \in DOMAIN history :
                    /\ history[i].role = "user"
                    /\ \E j \in DOMAIN history :
                          j > i /\ history[j].role = "assistant" })

\* the place, among the user utterances of the history, of the utterance
\* that turn i of the call takes up
PlaceOf(i) == Len(Queued) - Len(TurnWindow(Queued, frame.max_turns)) + i

(***************************************************************************)
(* C26.  Across the run_agent calls on one CallState every user utterance  *)
(* of the history is processed at most once: a turn of a call never takes  *)
(* up an utterance that already had an assistant reply after it when the   *)
(* call began.  Stated for the calls that bring a new utterance in         *)
(* last_user_text.                                                         *)
(***************************************************************************)
C26_UtteranceProcessedOnce ==
    ( /\ pc = "running"
      /\ Len(EntryHistory) > Len(entry.state.history) ) =>
        \A i \in 1..(Len(turn_log) + 1) :
            PlaceOf(i) > AnsweredUsers(EntryHistory)

(***************************************************************************)
(* C27.  When run_agent is called with a new non-empty last_user_text u on *)
(* a CallState with any history and returns, that call has processed u: on *)
(* return last_user_text is u and final_answer is the reply composed for   *)
(* u, the last turn of the call.                                           *)
(***************************************************************************)
C27_NewUtteranceAnswered ==
    ( /\ Returned
      /\ TruthyStr(entry.state.last_user_text)
      /\ Len(EntryHistory) > Len(entry.state.history) ) =>
        /\ call_state.last_user_text = entry.state.last_user_text
        /\ turn_log # <<>>
        /\ Some(turn_log[Len(turn_log)].text) = entry.state.last_user_text
        /\ call_state.final_answer = turn_log[Len(turn_log)].reply

\* the entities of a reservation turn lack what its intent requires, by the
\* conditions of tools_crm.py:18, 38 and 60
LacksRequired(turn) ==
    IF turn.intent = Some("create_reservation")
    THEN MissingOf(turn) # <<>>
    ELSE ~TruthyInt(EntitiesOf(turn).reservation_id)

(***************************************************************************)
(* C28.  A reservation turn whose required entities are missing produces   *)
(* its clarifying reply without contacting the reservation store: the      *)
(* dispatcher makes no store call, the table setup of the adapter's        *)
(* construction included, and the turn is completed with a clarify reply   *)
(* whether or not the store is reachable.                                  *)
(***************************************************************************)
C28_ClarifyWithoutStore ==
    \A i \in DOMAIN turn_log :
        ( /\ ReachedDispatch(turn_log[i])
          /\ turn_log[i].intent \in ReservationIntents
          /\ LacksRequired(turn_log[i]) ) =>
            /\ turn_log[i].calls = <<>>
            /\ Completed(turn_log[i])
            /\ Clarifies(turn_log[i])

\* the failure classes the wrapper is to retry
Transient(exc) ==
    \/ exc.class \in { "Timeout", "ConnectionError" }
    \/ /\ exc.class = "ExternalAPIError"
       /\ \/ exc.status_code = None
          \/ exc.status_code = Some(429)
          \/ exc.status_code # None /\ exc.status_code[1] >= 500

\* attempt i of the call failed
Failed(i) == retry.attempts[i].raised # None

(***************************************************************************)
(* C24.  A call wrapped by retryable is attempted again after a failure    *)
(* exactly when the failure is transient (Timeout, ConnectionError, or     *)
(* ExternalAPIError with status 429, status >= 500 or no status) and fewer *)
(* than retry_max_attempts attempts have been made: a non-transient        *)
(* failure propagates at once, a success on attempt k returns that result  *)
(* after exactly k attempts, and after retry_max_attempts transient        *)
(* failures the last exception is re-raised.                               *)
(***************************************************************************)
C24_RetriedIffTransient ==
    LET made == Len(retry.attempts)
    IN  /\ \A i \in 1..made :
              (i < made \/ retry.pc \in { "sleeping", "calling" })
              <=> ( /\ Failed(i)
                    /\ Transient(retry.attempts[i].raised[1])
                    /\ i < retry.max_attempts )
        /\ retry.pc = "returned" =>
              /\ ~Failed(made)
              /\ retry.attempt_number = made
        /\ retry.pc = "raised" =>
              /\ Failed(made)
              /\ retry.attempt_number = made
              /\ Transient(retry.attempts[made].raised[1])
                   => made = retry.max_attempts
        /\ made <= retry.max_attempts

\* two timeouts, then a success on the third attempt; or four transient
\* failures of different classes and the last one re-raised
C24_Witness ==
    /\ retry.max_attempts = RetryMaxAttempts
    /\ retry.pc = "raised"
    /\ Len(retry.attempts) = RetryMaxAttempts
    /\ retry.attempts[1].raised = Some(Exc("Timeout", None))
    /\ retry.attempts[2].raised = Some(Exc("ExternalAPIError", Some(429)))
    /\ retry.attempts[3].raised = Some(Exc("ExternalAPIError", None))
    /\ retry.attempts[4].raised = Some(Exc("ExternalAPIError", Some(503)))

\* the request in slot r, its response, and whether it was answered
RequestOf(r) == web[r].request[1]

ResponseOf(r) == web[r].response[1]

HandlingDone(r) == web[r].pc = "done"

(***************************************************************************)
(* C22.  Whatever exception the agent run, the reservation store, the menu *)
(* search, the text-to-speech call or the conversation store raises while  *)
(* a /twilio/ request is handled, the caller is given a spoken reply: the  *)
(* response is a TwiML document that says the generic apology, never a     *)
(* JSON error and never a document without a verb.                         *)
(***************************************************************************)
C22_FailureIsSpokenApology ==
    \A r \in RequestIds :
        /\ web[r].failure # "" => HandlingDone(r)
        /\ (HandlingDone(r) /\ web[r].failure # "") =>
              /\ ResponseOf(r).media_type = "application/xml"
              /\ ResponseOf(r).content \in
                   [gather : { None }, say : { Some("apology") },
                    play : { None }, hangup : BOOLEAN]

\* one voice request fails in the agent run with the store unreachable,
\* the other one after its turn is persisted, in the text-to-speech call
C22_Witness ==
    /\ HandlingDone("first")
    /\ HandlingDone("second")
    /\ RequestOf("first").path = VoicePath
    /\ RequestOf("second").path = VoicePath
    /\ web["first"].failure = "OperationalError"
    /\ web["first"].effects = <<"_ensure_tables", "run_agent">>
    /\ web["second"].failure = "ExternalAPIError"
    /\ web["second"].effects =
         <<"retrieve_menu_context", "run_agent", "next_turn_id",
           "create_turn", "tts_to_file">>
    /\ ResponseOf("first") = ResponseOf("second")
    /\ ResponseOf("second").status_code = 200

\* the signature header of the request is missing or does not validate
BadSignature(r) == RequestOf(r).signature \in { "missing", "invalid" }

(***************************************************************************)
(* C25.  For each Twilio webhook (incoming call, voice input, call status, *)
(* recording status) a request whose X-Twilio-Signature header is missing  *)
(* or does not validate is answered with status 403 and a TwiML body and   *)
(* causes no agent run, no reservation-store call and no                   *)
(* conversation-store write.  Stated for the requests the rate limiter     *)
(* lets through.                                                           *)
(***************************************************************************)
C25_BadSignatureIs403 ==
    \A r \in RequestIds :
        ( /\ web[r].pc # "none"
          /\ BadSignature(r)
          /\ ~RequestOf(r).limited ) =>
            /\ HandlingDone(r)
            /\ ResponseOf(r).status_code = 403
            /\ ResponseOf(r).media_type = "application/xml"
            /\ web[r].effects = <<>>

\* request r holds a turn id and has not failed
HoldsTurnId(r) == web[r].turn_id # None /\ web[r].failure = ""

(***************************************************************************)
(* C29.  For any interleaving of two requests that carry the same call id  *)
(* both turns are persisted under distinct turn ids: a turn id one request *)
(* obtained from next_turn_id is never the one the other request inserts   *)
(* with, and no request fails on the key of the turns table.               *)
(***************************************************************************)
C29_DistinctTurnIds ==
    /\ \A r \in RequestIds : web[r].failure # "UniqueViolation"
    /\ ( /\ HoldsTurnId("first")
         /\ HoldsTurnId("second")
         /\ RequestOf("first").call_id = RequestOf("second").call_id ) =>
           web["first"].turn_id # web["second"].turn_id

\* the voice handler of request r returned its own reply
Spoke(r) ==
    /\ HandlingDone(r)
    /\ web[r].failure = ""
    /\ web[r].final_answer # None

====
